---- MODULE Spec2Model ----
(***************************************************************************)
(* A model of the resumable CMP handler (MultiHandler) of multi-party-sig  *)
(* and of the keygen / sign rounds it drives.                              *)
(*                                                                         *)
(* Cryptographic values are abstracted to tags: the content of a message   *)
(* is "ok" (what an honest sender computes), "alt" (well formed, passes    *)
(* the receiver's local checks, but a different value) or "bad" (fails the *)
(* round's proof / commitment / field checks).  Hashes are modelled as the *)
(* injective encoding of what they hash.                                   *)
(***************************************************************************)
EXTENDS Integers, Sequences, FiniteSets, TLC

VARIABLES hs, net, faults, last, pc, call

vars == <<hs, net, faults, last, pc, call>>

\* nil, for a string, for a pointer to a struct, and for a byte slice.
Nil == "nil"
NilObj == [nil |-> TRUE]
NilHash == <<>>

\* The party ids of the sample run, in sorted order: alice, bob, charlie.
Parties == {1, 2, 3}

FinalRoundNumber == 5

\* How many rounds ahead of the receiver's current round the environment
\* delivers messages.
MaxAhead == 1

\* How many deviating messages (wrong content, wrong echo hash, peer abort)
\* the environment injects in one run.
MaxFaults == 1

\* The party that may deviate: charlie.
Faulty == {3}

\* The party that may run ahead of the receiver: charlie.
Eager == {3}

\* How many abort messages a handler queues before the driver gives up on it.
MaxAborts == 2

RoundNumbers == 1..FinalRoundNumber
QueueRounds == 2..FinalRoundNumber

Protocols == {"keygen", "sign"}

SessionSSID == "ssid"

OtherPartyIDs(self) == Parties \ {self}

\* The parties of S in sorted order.
RECURSIVE SortedSeq(_)
SortedSeq(S) ==
    IF S = {} THEN <<>>
    ELSE LET m == CHOOSE x \in S : \A y \in S : x <= y
         IN  <<m>> \o SortedSeq(S \ {m})

PartyIDs == SortedSeq(Parties)

\* r.(round.BroadcastRound): every round but the first has a broadcast.
IsBroadcastRound(proto, r) == r >= 2

\* expectsNormalMessage: r.MessageContent() != nil.
expectsNormalMessage(proto, r) ==
    IF proto = "keygen" THEN r = 4 ELSE r \in {2, 3, 4}

---------------------------------------------------------------------------
(* Messages and hashes *)

Message(ssid, from, to, proto, r, data, bc, bv) ==
    [SSID |-> ssid, From |-> from, To |-> to, Protocol |-> proto,
     RoundNumber |-> r, Data |-> data, Broadcast |-> bc,
     BroadcastVerification |-> bv]

\* Message.Hash: a hash over the header and the content of the message.
MsgHash(m) ==
    <<m.SSID, m.From, m.To, m.Protocol, m.RoundNumber, m.Data, m.Broadcast>>

\* Message.IsFor: not from id itself, and addressed to id or to everybody.
IsFor(m, id) == m.From # id /\ (m.To = 0 \/ m.To = id)

\* The echo hash of a round: the hash of the per-sender broadcast hashes in
\* party order.
EchoHash(q) == [i \in 1..Len(PartyIDs) |-> MsgHash(q[PartyIDs[i]])]

---------------------------------------------------------------------------
(* Round state: what the round objects have absorbed *)

EmptyAbsorbed == [r \in QueueRounds |-> [j \in Parties |-> Nil]]

\* The state of a round object (the chain of embedded round structs):
\* bc[r][j] is the content of j's round-r broadcast as stored by
\* StoreBroadcastMessage, pm[r][j] the content of j's round-r P2P message
\* as accepted by VerifyMessage / StoreMessage.
NewRoundState == [bc |-> EmptyAbsorbed, pm |-> EmptyAbsorbed]

\* The sender's earlier broadcast that a content is checked against:
\* keygen round 3 opens the round-2 commitment, keygen round 5 answers the
\* round-3 Schnorr commitment; a P2P proof is about the same round's
\* broadcast values.
Consistent(st, r, from, data, ref) ==
    st.bc[ref][from] # Nil /\ st.bc[ref][from] = data

\* StoreBroadcastMessage of the round: TRUE iff it returns no error.
StoreBroadcastOK(proto, r, st, from, data) ==
    /\ data \in {"ok", "alt"}
    /\ (proto = "keygen" /\ r = 3) => Consistent(st, r, from, data, 2)
    /\ (proto = "keygen" /\ r = 5) => Consistent(st, r, from, data, 3)

StoreBroadcastMessage(proto, r, st, from, data) ==
    [st EXCEPT !.bc[r][from] = data]

\* VerifyMessage followed by StoreMessage: TRUE iff neither returns an error.
VerifyStoreOK(proto, r, st, from, data) ==
    /\ data \in {"ok", "alt"}
    /\ Consistent(st, r, from, data, IF proto = "keygen" THEN 3 ELSE r)

StoreMessage(proto, r, st, from, data) ==
    [st EXCEPT !.pm[r][from] = data]

\* The round messages a Finalize of round r appends to out: the broadcast
\* first, then one P2P message per other party in sorted order.
RoundMsg(to, bc, r, data) ==
    [To |-> to, Broadcast |-> bc, RoundNumber |-> r, Data |-> data]

RECURSIVE SendAll(_, _, _)
SendAll(others, r, data) ==
    IF others = <<>> THEN <<>>
    ELSE <<RoundMsg(Head(others), FALSE, r, data)>> \o SendAll(Tail(others), r, data)

FinalizeOut(proto, r, self, data) ==
    <<RoundMsg(0, TRUE, r + 1, data)>> \o
    (IF expectsNormalMessage(proto, r + 1)
     THEN SendAll(SortedSeq(OtherPartyIDs(self)), r + 1, data)
     ELSE <<>>)

AllOk(f) == \A j \in Parties : f[j] = "ok"

\* The values Finalize of round r reads from the round object for every
\* other party; a missing one is a nil map entry.
FinalizeHasInputs(proto, r, st, self) ==
    LET others == OtherPartyIDs(self) IN
    CASE proto = "keygen" /\ r = 3 -> \A j \in others : st.bc[3][j] # Nil
      [] proto = "keygen" /\ r = 4 -> \A j \in others : st.pm[4][j] # Nil
      [] proto = "sign" /\ r = 2   -> \A j \in others : st.bc[2][j] # Nil
      [] proto = "sign" /\ r = 3   -> \A j \in others : st.pm[3][j] # Nil
      [] proto = "sign" /\ r = 4   -> \A j \in others : st.bc[4][j] # Nil
      [] proto = "sign" /\ r = 5   -> \A j \in others : st.bc[5][j] # Nil
      [] OTHER -> TRUE

\* ecdsa.Signature.Verify of the combined signature.
Verify(sig) == sig.R = "ok" /\ sig.S = "ok"

Signature(st) ==
    [kind |-> "Signature",
     R |-> IF AllOk(st.bc[2]) /\ AllOk(st.bc[3]) /\ AllOk(st.bc[4])
           THEN "ok" ELSE "alt",
     S |-> IF AllOk(st.bc[5]) THEN "ok" ELSE "alt"]

\* The Config of keygen round 5: the public records and the XOR of the RIDs
\* and chain keys are functions of the round-3 openings.
Config(st, self) ==
    [kind |-> "Config", ID |-> self, Public |-> st.bc[3],
     RID |-> {st.bc[3][j] : j \in Parties},
     ChainKey |-> {st.bc[3][j] : j \in Parties}]

\* Sign round 4: "computed Delta is inconsistent with [delta]G".
DeltaConsistent(st) == AllOk(st.bc[4])

\* Round 5 without the check of the combined signature.
SignatureValidUnchecked(st) == TRUE

\* Sign round 5: signature.Verify(PublicKey, Message).
SignatureValid(st) == Verify(Signature(st))

\* Finalize of the current round object.
Finalize(proto, r, st, self) ==
    IF ~FinalizeHasInputs(proto, r, st, self)
    THEN [kind |-> "panic"]
    ELSE IF proto = "keygen" /\ r = 5
    THEN [kind |-> "output", result |-> Config(st, self)]
    ELSE IF proto = "sign" /\ r = 5
    THEN IF SignatureValid(st)
         THEN [kind |-> "output", result |-> Signature(st)]
         ELSE [kind |-> "abort", err |-> "failed to validate signature"]
    ELSE IF proto = "sign" /\ r = 4 /\ ~DeltaConsistent(st)
    THEN [kind |-> "abort", err |-> "computed Delta is inconsistent with [delta]G"]
    ELSE LET data == IF proto = "sign" /\ r = 3
                        /\ \E j \in Parties : st.bc[3][j] = Nil
                     THEN "alt" ELSE "ok"
         IN  [kind |-> "next",
              st |-> [st EXCEPT !.bc[r + 1][self] = data],
              out |-> FinalizeOut(proto, r, self, data)]

---------------------------------------------------------------------------
(* The handler *)

\* newQueue: one slot per round 2..final and sender, all empty.
newQueue == [r \in QueueRounds |-> [j \in Parties |-> NilObj]]

\* NewMultiHandler: the handler seeded with round 1.  cr is the state of
\* the object CurrentRound points to, rd that of Rounds[cur]; same tells
\* whether the two are one object.
NewMultiHandler(proto, self) ==
    [proto |-> proto, self |-> self,
     cur |-> 1, Rounds |-> {1},
     cr |-> NewRoundState, rd |-> NewRoundState, same |-> TRUE,
     Err |-> NilObj, ResultObj |-> NilObj,
     Messages |-> newQueue, Broadcast |-> newQueue,
     BroadcastHashes |-> [r \in 0..FinalRoundNumber |-> NilHash],
     Out |-> <<>>,
     panicked |-> FALSE]

ErrorOf(err, culprits) == [Culprits |-> culprits, Err |-> err]

\* Result: the result if there is one, else the recorded error, else
\* "protocol: not finished".
Result(h) ==
    IF h.ResultObj # NilObj THEN [res |-> h.ResultObj, err |-> NilObj]
    ELSE IF h.Err # NilObj THEN [res |-> NilObj, err |-> h.Err]
    ELSE [res |-> NilObj, err |-> ErrorOf("protocol: not finished", <<>>)]

\* CanAccept without the check for messages of a past round.
CanAcceptAnyRound(h, msg) ==
    /\ IsFor(msg, h.self)
    /\ msg.Protocol = h.proto
    /\ msg.SSID = SessionSSID
    /\ msg.From \in Parties
    /\ msg.Data # Nil
    /\ ~(msg.RoundNumber > FinalRoundNumber)

CanAccept(h, msg) ==
    /\ IsFor(msg, h.self)
    /\ msg.Protocol = h.proto
    /\ msg.SSID = SessionSSID
    /\ msg.From \in Parties
    /\ msg.Data # Nil
    /\ ~(msg.RoundNumber > FinalRoundNumber)
    /\ ~(msg.RoundNumber < h.cur /\ msg.RoundNumber > 0)

\* duplicate finding no message a duplicate.
duplicateIgnored(h, msg) == FALSE

duplicate(h, msg) ==
    IF msg.RoundNumber = 0 THEN FALSE
    ELSE IF msg.RoundNumber \notin QueueRounds THEN TRUE
    ELSE IF msg.Broadcast
         THEN h.Broadcast[msg.RoundNumber][msg.From] # NilObj
         ELSE h.Messages[msg.RoundNumber][msg.From] # NilObj

\* store leaving the queues as they are.
storeDropped(h, msg) == h

store(h, msg) ==
    IF msg.Broadcast
    THEN [h EXCEPT !.Broadcast[msg.RoundNumber][msg.From] = msg]
    ELSE [h EXCEPT !.Messages[msg.RoundNumber][msg.From] = msg]

\* abort recording the error without the culprits.
abortNamingNobody(h, err, culprits) ==
    IF err = Nil THEN h
    ELSE [h EXCEPT
            !.Err = ErrorOf(err, <<>>),
            !.Out = Append(h.Out,
                      Message(SessionSSID, h.self, 0, h.proto, 0, err, FALSE, NilHash))]

\* abort: record the error and queue the abort message for the peers.
abort(h, err, culprits) ==
    IF err = Nil THEN h
    ELSE [h EXCEPT
            !.Err = ErrorOf(err, culprits),
            !.Out = Append(h.Out,
                      Message(SessionSSID, h.self, 0, h.proto, 0, err, FALSE, NilHash))]

\* getRoundMessage: the error of unmarshalling the data into the content
\* type of the round, Nil if there is none.
getRoundMessage(msg) ==
    IF msg.Data = "garbled" THEN "failed to unmarshal" ELSE Nil

\* verifyBroadcastMessage: store the broadcast in the round object found in
\* Rounds, then make that object the current round.
verifyBroadcastMessage(h, msg) ==
    IF msg.RoundNumber \notin h.Rounds THEN [h |-> h, err |-> Nil]
    ELSE IF getRoundMessage(msg) # Nil THEN [h |-> h, err |-> getRoundMessage(msg)]
    ELSE IF ~StoreBroadcastOK(h.proto, msg.RoundNumber, h.rd, msg.From, msg.Data)
    THEN [h |-> h, err |-> "round: store broadcast failed"]
    ELSE LET r == StoreBroadcastMessage(h.proto, msg.RoundNumber, h.rd,
                                        msg.From, msg.Data)
         IN  [h |-> [h EXCEPT !.rd = r, !.cr = r, !.same = TRUE], err |-> Nil]

\* verifyMessage: verify and store a P2P message in the round object found
\* in Rounds, once the sender's broadcast of the round is queued.
verifyMessage(h, msg) ==
    IF msg.RoundNumber \notin h.Rounds THEN [h |-> h, err |-> Nil]
    ELSE IF IsBroadcastRound(h.proto, msg.RoundNumber)
            /\ h.Broadcast[msg.RoundNumber][msg.From] = NilObj
    THEN [h |-> h, err |-> Nil]
    ELSE IF getRoundMessage(msg) # Nil THEN [h |-> h, err |-> getRoundMessage(msg)]
    ELSE IF ~VerifyStoreOK(h.proto, msg.RoundNumber, h.rd, msg.From, msg.Data)
    THEN [h |-> h, err |-> "round: verify message failed"]
    ELSE LET r == StoreMessage(h.proto, msg.RoundNumber, h.rd, msg.From, msg.Data)
         IN  [h |-> [h EXCEPT !.rd = r, !.cr = IF h.same THEN r ELSE h.cr],
              err |-> Nil]

AbortedByPeer == "aborted by other party"

Accept(h, msg) ==
    IF h.Err # NilObj \/ h.ResultObj # NilObj \/ duplicate(h, msg) THEN h
    ELSE IF msg.RoundNumber = 0 THEN abort(h, AbortedByPeer, <<msg.From>>)
    ELSE LET h1 == store(h, msg) IN
         IF h1.cur # msg.RoundNumber THEN h1
         ELSE IF msg.Broadcast
         THEN LET v == verifyBroadcastMessage(h1, msg) IN
              IF v.err # Nil THEN abort(v.h, v.err, <<msg.From>>) ELSE v.h
         ELSE verifyMessage(h1, msg).h

BroadcastComplete(h) == \A j \in Parties : h.Broadcast[h.cur][j] # NilObj

\* ReceivedAll without the loop over the P2P messages.
ReceivedAllBroadcastOnly(h) ==
    IsBroadcastRound(h.proto, h.cur) => BroadcastComplete(h)

\* ReceivedAll, the value it returns.
ReceivedAll(h) ==
    /\ IsBroadcastRound(h.proto, h.cur) => BroadcastComplete(h)
    /\ expectsNormalMessage(h.proto, h.cur) =>
           \A j \in OtherPartyIDs(h.self) : h.Messages[h.cur][j] # NilObj

\* ReceivedAll, its effect: the echo hash of the round is computed once all
\* broadcasts of the round are queued.
ReceivedAllUpd(h) ==
    IF IsBroadcastRound(h.proto, h.cur) /\ BroadcastComplete(h)
       /\ h.BroadcastHashes[h.cur] = NilHash
    THEN [h EXCEPT !.BroadcastHashes[h.cur] = EchoHash(h.Broadcast[h.cur])]
    ELSE h

\* ProcessRound without the comparison of the echo hashes.
checkBroadcastHashSkipped(h) == TRUE

checkBroadcastHash(h) ==
    LET previousHash == h.BroadcastHashes[h.cur - 1] IN
    IF previousHash = NilHash THEN TRUE
    ELSE /\ \A j \in Parties : h.Messages[h.cur][j] # NilObj =>
                h.Messages[h.cur][j].BroadcastVerification = previousHash
         /\ \A j \in Parties : h.Broadcast[h.cur][j] # NilObj =>
                h.Broadcast[h.cur][j].BroadcastVerification = previousHash

BroadcastVerificationFailed == "Broadcast verification failed"

\* The header ProcessRound puts on the round messages of Finalize; a
\* broadcast is also stored in the handler's own queue.
RECURSIVE Forward(_, _)
Forward(h, out) ==
    IF out = <<>> THEN h
    ELSE LET rm == Head(out)
             msg == Message(SessionSSID, h.self, rm.To, h.proto, rm.RoundNumber,
                            rm.Data, rm.Broadcast, h.BroadcastHashes[h.cur - 1])
             h1 == IF msg.Broadcast THEN store(h, msg) ELSE h
         IN  Forward([h1 EXCEPT !.Out = Append(h1.Out, msg)], Tail(out))

\* ProcessRound: the handler after the call, and what the call returns.
\* ProcessRound that makes the round returned by Finalize the current round
\* before it looks at its kind, so that an Abort also moves the round number.
ProcessRoundAdvancingOnAbort(h) ==
    LET h0 == ReceivedAllUpd(h) IN
    IF ~ReceivedAll(h) THEN [h |-> h0, ret |-> <<>>, fin |-> "none"]
    ELSE IF ~checkBroadcastHash(h0)
    THEN [h |-> abort(h0, BroadcastVerificationFailed, <<>>), ret |-> <<>>,
          fin |-> "none"]
    ELSE LET f == Finalize(h0.proto, h0.cur, h0.cr, h0.self) IN
         CASE f.kind = "panic" ->
                [h |-> [h0 EXCEPT !.panicked = TRUE], ret |-> <<>>, fin |-> "panic"]
           [] f.kind = "abort" ->
                [h |-> [abort(h0, f.err, <<>>) EXCEPT !.cur = h0.cur + 1],
                 ret |-> <<>>, fin |-> "abort"]
           [] f.kind = "output" ->
                [h |-> [h0 EXCEPT !.ResultObj = f.result], ret |-> <<>>,
                 fin |-> "output"]
           [] OTHER ->
                LET h1 == [h0 EXCEPT !.Rounds = h0.Rounds \cup {h0.cur + 1},
                                    !.cur = h0.cur + 1,
                                    !.cr = f.st, !.rd = f.st, !.same = TRUE,
                                    !.Out = <<>>]
                    h2 == Forward(h1, f.out)
                IN  [h |-> h2, ret |-> h2.Out, fin |-> "next"]

ProcessRound(h) ==
    LET h0 == ReceivedAllUpd(h) IN
    IF ~ReceivedAll(h) THEN [h |-> h0, ret |-> <<>>, fin |-> "none"]
    ELSE IF ~checkBroadcastHash(h0)
    THEN [h |-> abort(h0, BroadcastVerificationFailed, <<>>), ret |-> <<>>,
          fin |-> "none"]
    ELSE LET f == Finalize(h0.proto, h0.cur, h0.cr, h0.self) IN
         CASE f.kind = "panic" ->
                [h |-> [h0 EXCEPT !.panicked = TRUE], ret |-> <<>>, fin |-> "panic"]
           [] f.kind = "abort" ->
                [h |-> abort(h0, f.err, <<>>), ret |-> <<>>, fin |-> "abort"]
           [] f.kind = "output" ->
                [h |-> [h0 EXCEPT !.ResultObj = f.result], ret |-> <<>>,
                 fin |-> "output"]
           [] OTHER ->
                LET h1 == [h0 EXCEPT !.Rounds = h0.Rounds \cup {h0.cur + 1},
                                    !.cur = h0.cur + 1,
                                    !.cr = f.st, !.rd = f.st, !.same = TRUE,
                                    !.Out = <<>>]
                    h2 == Forward(h1, f.out)
                IN  [h |-> h2, ret |-> h2.Out, fin |-> "next"]

AbortedByUser == "aborted by user"

Stop(h) ==
    IF h.Err # NilObj \/ h.ResultObj # NilObj
    THEN abort(h, AbortedByUser, <<h.self>>)
    ELSE h

\* AddReceivedMsgs with one message: accept it if CanAccept allows, then
\* ReceivedAll.
AddReceivedMsgs(h, msg) ==
    ReceivedAllUpd(IF CanAccept(h, msg) THEN Accept(h, msg) ELSE h)

---------------------------------------------------------------------------
(* Serialization *)

\* MarshalJSON: the document holds the current round, the rounds by number,
\* the error, the result as a plain JSON value, the queues, the echo hashes
\* and the out queue.
MarshalJSON(h) ==
    [proto |-> h.proto, self |-> h.self,
     CurrentRound |-> [Number |-> h.cur, st |-> h.cr],
     Rounds |-> [n \in h.Rounds |-> IF n = h.cur THEN h.rd ELSE NewRoundState],
     Err |-> h.Err,
     ResultObj |-> IF h.ResultObj = NilObj THEN NilObj
                   ELSE [h.ResultObj EXCEPT !.kind = "json"],
     Messages |-> h.Messages, Broadcast |-> h.Broadcast,
     BroadcastHashes |-> h.BroadcastHashes, Out |-> h.Out]

\* MultiHandlerFromJSON: CurrentRound and Rounds[cur] are decoded into two
\* objects, and the result into an untyped value.
MultiHandlerFromJSON(doc) ==
    [proto |-> doc.proto, self |-> doc.self,
     cur |-> doc.CurrentRound.Number, Rounds |-> DOMAIN doc.Rounds,
     cr |-> doc.CurrentRound.st, rd |-> doc.Rounds[doc.CurrentRound.Number],
     same |-> FALSE,
     Err |-> doc.Err, ResultObj |-> doc.ResultObj,
     Messages |-> doc.Messages, Broadcast |-> doc.Broadcast,
     BroadcastHashes |-> doc.BroadcastHashes, Out |-> doc.Out,
     panicked |-> FALSE]

\* GetConfigOrErr / GetSignatureOrErr: Result followed by a type assertion.
GetResultOrErr(h) ==
    LET r == Result(h) IN
    IF r.err # NilObj THEN [res |-> NilObj, err |-> r.err, panic |-> FALSE]
    ELSE IF r.res.kind \in {"Config", "Signature"}
    THEN [res |-> r.res, err |-> NilObj, panic |-> FALSE]
    ELSE [res |-> NilObj, err |-> NilObj, panic |-> TRUE]

---------------------------------------------------------------------------
(* One handler and the messages its peers deliver to it *)

\* The echo hash of round r as a peer computes it: over the broadcasts the
\* handler holds, and the honest broadcast for every sender still missing.
ExpectedBH(h, r) ==
    IF r \notin QueueRounds THEN NilHash
    ELSE EchoHash([j \in Parties |->
            IF h.Broadcast[r][j] # NilObj THEN h.Broadcast[r][j]
            ELSE Message(SessionSSID, j, 0, h.proto, r, "ok", TRUE, NilHash)])

WrongHash == <<"wrong">>

\* The round messages party j can deliver to handler h for the current
\* round and up to ahead rounds after it; honest or deviating.
RoundMsgsUpTo(h, j, ahead) ==
    UNION { { Message(SessionSSID, j, IF bc THEN 0 ELSE h.self, h.proto, r, data, bc, bv) :
                <<data, bv>> \in {"ok", "alt", "bad"} \X {ExpectedBH(h, r - 1), WrongHash} } :
            <<r, bc>> \in { t \in (h.cur .. h.cur + ahead) \X BOOLEAN :
                              /\ t[1] \in QueueRounds
                              /\ (~t[2] => expectsNormalMessage(h.proto, t[1])) } }

\* An eager party runs up to MaxAhead rounds ahead of the receiver.
RoundMsgs(h, j) == RoundMsgsUpTo(h, j, IF j \in Eager THEN MaxAhead ELSE 0)

AbortMsg(h, j) == Message(SessionSSID, j, 0, h.proto, 0, "peer error", FALSE, NilHash)

\* The values party j has committed itself to towards handler h: those of
\* its latest queued broadcast, the honest ones if there is none.
RECURSIVE Persona(_, _, _)
Persona(h, j, r) ==
    IF r \notin QueueRounds THEN "ok"
    ELSE IF h.Broadcast[r][j] # NilObj THEN h.Broadcast[r][j].Data
    ELSE Persona(h, j, r - 1)

\* How far a message deviates from what its sender is expected to send: a
\* peer abort, a content that departs from the sender's earlier values, an
\* echo hash other than the one the peers compute.
Deviation(h, msg) ==
    (IF msg.RoundNumber = 0 THEN 1 ELSE 0)
    + (IF msg.RoundNumber # 0
          /\ msg.Data # Persona(h, msg.From, msg.RoundNumber - (IF msg.Broadcast THEN 1 ELSE 0))
       THEN 1 ELSE 0)
    + (IF msg.RoundNumber # 0
          /\ msg.BroadcastVerification # ExpectedBH(h, msg.RoundNumber - 1)
       THEN 1 ELSE 0)

AbortCount(h) == Cardinality({i \in 1..Len(h.Out) : h.Out[i].RoundNumber = 0})

\* The last call made on a handler: "receive", "stop", "persist", or what
\* ProcessRound did ("none", "panic", "abort", "output", "next").
Event(op, p) == [op |-> op, p |-> p]

Peers == Parties \ DOMAIN hs

\* The goroutines of the driver that call into a handler, and where each of
\* them is: at "idle" outside the handler, at "accept", "result" or
\* "process" inside that call, with the message it passed to Accept and the
\* handler as ProcessRound found it.
Threads == {"a", "b"}

Idle == [at |-> "idle", msg |-> NilObj, snap |-> NilObj]

\* The library call under examination outside a protocol run (its function,
\* its arguments and what it returned); none during a protocol run.
NoCall == [fn |-> "none"]

\* One of the messages msgs of peer j arrives: AddReceivedMsgs.
PeerReceive(p, j, msgs) ==
    /\ ~hs[p].panicked
    /\ \E msg \in msgs :
         /\ ~duplicate(hs[p], msg)
         /\ faults + Deviation(hs[p], msg) <= MaxFaults
         /\ Deviation(hs[p], msg) > 0 => j \in Faulty
         /\ faults' = faults + Deviation(hs[p], msg)
         /\ hs' = [hs EXCEPT ![p] = AddReceivedMsgs(hs[p], msg)]
         /\ last' = Event("receive", p)
    /\ UNCHANGED <<net, pc, call>>

\* A peer's message arrives, a round message or an abort.
Receive(p, j) ==
    PeerReceive(p, j, RoundMsgs(hs[p], j) \cup {AbortMsg(hs[p], j)})

\* The driver hands the messages ProcessRound returned to the transport:
\* one copy for every other handler the message is for.
Transmit(p, out) ==
    { [dst |-> q, msg |-> out[i]] :
        <<q, i>> \in { t \in (DOMAIN hs \ {p}) \X (1..Len(out)) : IsFor(out[t[2]], t[1]) } }

\* The driver calls ProcessRound.
Process(p) ==
    /\ ~hs[p].panicked
    /\ AbortCount(hs[p]) < MaxAborts
    /\ LET pr == ProcessRound(hs[p]) IN
         /\ hs' = [hs EXCEPT ![p] = pr.h]
         /\ last' = Event(pr.fin, p)
         /\ net' = net \cup Transmit(p, pr.ret)
    /\ UNCHANGED <<faults, pc, call>>

\* The driver stores the handler and loads it again.
Persist(p) ==
    /\ ~hs[p].panicked
    /\ MultiHandlerFromJSON(MarshalJSON(hs[p])) # hs[p]
    /\ hs' = [hs EXCEPT ![p] = MultiHandlerFromJSON(MarshalJSON(hs[p]))]
    /\ last' = Event("persist", p)
    /\ UNCHANGED <<net, faults, pc, call>>

\* The driver calls Stop.
StopHandler(p) ==
    /\ ~hs[p].panicked
    /\ AbortCount(hs[p]) < MaxAborts
    /\ Stop(hs[p]) # hs[p]
    /\ hs' = [hs EXCEPT ![p] = Stop(hs[p])]
    /\ last' = Event("stop", p)
    /\ UNCHANGED <<net, faults, pc, call>>

Init ==
    /\ \E proto \in Protocols : hs = [p \in {1} |-> NewMultiHandler(proto, p)]
    /\ net = {}
    /\ faults = 0
    /\ last = Event("init", 0)
    /\ pc = [t \in Threads |-> Idle]
    /\ call = NoCall

Next ==
    \/ \E p \in DOMAIN hs : \E j \in Peers : Receive(p, j)
    \/ \E p \in DOMAIN hs : Process(p)
    \/ \E p \in DOMAIN hs : StopHandler(p)

Spec == Init /\ [][Next]_vars

---------------------------------------------------------------------------
(* One handler that is stored and loaded again between calls *)

NextJSON ==
    \/ \E p \in DOMAIN hs : \E j \in Peers : Receive(p, j)
    \/ \E p \in DOMAIN hs : Process(p)
    \/ \E p \in DOMAIN hs : Persist(p)

SpecJSON == Init /\ [][NextJSON]_vars

---------------------------------------------------------------------------
(* Two handlers, alice and bob, with charlie as their peer *)

\* A message of another handler arrives: AddReceivedMsgs.
Deliver(p) ==
    /\ ~hs[p].panicked
    /\ \E m \in net :
         /\ m.dst = p
         /\ net' = net \ {m}
         /\ hs' = [hs EXCEPT ![p] = AddReceivedMsgs(hs[p], m.msg)]
         /\ last' = Event("receive", p)
    /\ UNCHANGED <<faults, pc, call>>

\* A message of charlie for the current round arrives: a well-formed round
\* message, which may differ from the one charlie sends to the other handler.
ReceiveWellFormed(p, j) ==
    PeerReceive(p, j, {m \in RoundMsgsUpTo(hs[p], j, 0) : m.Data \in {"ok", "alt"}})

InitNet ==
    /\ hs = [p \in {1, 2} |-> NewMultiHandler("keygen", p)]
    /\ net = {}
    /\ faults = 0
    /\ last = Event("init", 0)
    /\ pc = [t \in Threads |-> Idle]
    /\ call = NoCall

NextNet ==
    \/ \E p \in DOMAIN hs : \E j \in Peers : ReceiveWellFormed(p, j)
    \/ \E p \in DOMAIN hs : Deliver(p)
    \/ \E p \in DOMAIN hs : Process(p)

SpecNet == InitNet /\ [][NextNet]_vars

---------------------------------------------------------------------------
(* Properties of one handler *)

Handlers == DOMAIN hs

ProcessOps == {"none", "panic", "abort", "output", "next"}

\* The step is a ProcessRound call on handler p.
ProcessStep(p) == last'.p = p /\ last'.op \in ProcessOps /\ hs'[p] = ProcessRound(hs[p]).h

\* The step is an AddReceivedMsgs call on handler p that stored the message
\* of sender j in the queue of the current round.
StoredNow(p, j, bc) ==
    /\ last'.p = p /\ last'.op = "receive"
    /\ hs[p].cur \in QueueRounds
    /\ IF bc THEN /\ hs[p].Broadcast[hs[p].cur][j] = NilObj
                  /\ hs'[p].Broadcast[hs[p].cur][j] # NilObj
             ELSE /\ hs[p].Messages[hs[p].cur][j] = NilObj
                  /\ hs'[p].Messages[hs[p].cur][j] # NilObj

LastOut(h) == h.Out[Len(h.Out)]

\* The handler's last outbound message is the abort message for its error.
AbortQueued(h) ==
    /\ h.Err # NilObj
    /\ Len(h.Out) > 0
    /\ LastOut(h).RoundNumber = 0
    /\ LastOut(h).From = h.self
    /\ LastOut(h).Data = h.Err.Err

\* C1: whenever a sign handler's Result is a signature, the signature
\* verifies; and when the combined signature of round 5 does not verify,
\* the round-5 Finalize aborts and Result holds no signature.
C1_SignatureVerifies ==
    \A p \in Handlers : hs[p].proto = "sign" =>
        /\ Result(hs[p]).res # NilObj => Verify(Result(hs[p]).res)
        /\ (last.p = p /\ last.op \in {"abort", "output"} /\ hs[p].cur = 5
              /\ ~Verify(Signature(hs[p].cr)))
             => (last.op = "abort" /\ Result(hs[p]).res = NilObj)

C1_Witness ==
    \E p \in Handlers :
        /\ hs[p].proto = "sign" /\ last.p = p /\ last.op = "output"
        /\ Result(hs[p]).res # NilObj

\* C2: a keygen handler holds a Config only if the round-5 Schnorr response
\* of every other party was verified and accepted by the round.
C2_ConfigOnlyIfSchnorrVerified ==
    \A p \in Handlers :
        (hs[p].proto = "keygen" /\ Result(hs[p]).res # NilObj)
          => \A j \in OtherPartyIDs(p) : hs[p].cr.bc[5][j] # Nil

\* C3: once a handler has recorded an error, no later call changes what
\* Result returns, advances the round or sets a result.
C3_AbortTerminal ==
    [][\A p \in Handlers :
          hs[p].Err # NilObj =>
             /\ Result(hs'[p]) = [res |-> NilObj, err |-> hs[p].Err]
             /\ hs'[p].cur = hs[p].cur
             /\ hs'[p].ResultObj = NilObj]_vars

\* C4: when the round rejects a current-round message, broadcast or P2P,
\* the handler records the error and queues the abort message.
C4_VerifyErrorAborts ==
    [][\A p \in Handlers : \A j \in OtherPartyIDs(p) :
          LET h == hs[p] IN
          /\ (StoredNow(p, j, TRUE)
                /\ ~StoreBroadcastOK(h.proto, h.cur, h.rd, j,
                                     hs'[p].Broadcast[h.cur][j].Data))
               => AbortQueued(hs'[p])
          /\ (StoredNow(p, j, FALSE)
                /\ h.Broadcast[h.cur][j] # NilObj
                /\ ~VerifyStoreOK(h.proto, h.cur, h.rd, j,
                                  hs'[p].Messages[h.cur][j].Data))
               => AbortQueued(hs'[p])]_vars

\* Some queued message of the current round carries an echo hash other
\* than the handler's hash of the previous round.
EchoMismatch(h) ==
    /\ h.cur \in QueueRounds
    /\ \E j \in Parties :
         \/ /\ h.Messages[h.cur][j] # NilObj
            /\ h.Messages[h.cur][j].BroadcastVerification # h.BroadcastHashes[h.cur - 1]
         \/ /\ h.Broadcast[h.cur][j] # NilObj
            /\ h.Broadcast[h.cur][j].BroadcastVerification # h.BroadcastHashes[h.cur - 1]

\* C5 as stated: with an echo mismatch among the queued messages of the
\* current round, ProcessRound does not finalize, does not advance and
\* records an abort.
C5_MismatchAborts ==
    [][\A p \in Handlers :
          (ProcessStep(p) /\ EchoMismatch(hs[p])) =>
             /\ last'.op = "none"
             /\ hs'[p].cur = hs[p].cur
             /\ hs'[p].Err = ErrorOf(BroadcastVerificationFailed, <<>>)]_vars

\* C5 amended: the same for a round after a broadcast round (3 and later)
\* once ReceivedAll holds; before that ProcessRound records nothing.
C5_MismatchAbortsWhenReceivedAll ==
    [][\A p \in Handlers :
          (ProcessStep(p) /\ EchoMismatch(hs[p]) /\ hs[p].cur >= 3) =>
             /\ last'.op = "none"
             /\ hs'[p].cur = hs[p].cur
             /\ hs'[p].ResultObj = hs[p].ResultObj
             /\ IF ReceivedAll(hs[p])
                THEN /\ hs'[p].Err = ErrorOf(BroadcastVerificationFailed, <<>>)
                     /\ AbortQueued(hs'[p])
                ELSE hs'[p].Err = hs[p].Err /\ hs'[p].Out = hs[p].Out]_vars

C5_Witness ==
    \E p \in Handlers :
        /\ last.p = p /\ last.op = "none"
        /\ EchoMismatch(hs[p]) /\ hs[p].cur >= 3 /\ ReceivedAll(hs[p])
        /\ hs[p].Err = ErrorOf(BroadcastVerificationFailed, <<>>)

\* C7: a handler that has left round r has passed every queued round-r
\* broadcast and P2P message of the other parties through the round's
\* store operations.
C7_BufferedAbsorbed ==
    \A p \in Handlers : \A r \in QueueRounds : \A j \in OtherPartyIDs(p) :
        (r < hs[p].cur \/ (r = hs[p].cur /\ hs[p].ResultObj # NilObj)) =>
            /\ hs[p].Broadcast[r][j] # NilObj =>
                 hs[p].cr.bc[r][j] = hs[p].Broadcast[r][j].Data
            /\ hs[p].Messages[r][j] # NilObj =>
                 hs[p].cr.pm[r][j] = hs[p].Messages[r][j].Data

---------------------------------------------------------------------------
(* Two handlers and an honest peer, every message eventually delivered *)

\* A message of charlie for the current round arrives, as an honest charlie
\* sends it.
ReceiveHonest(p, j) ==
    PeerReceive(p, j, {m \in RoundMsgsUpTo(hs[p], j, 0) : Deviation(hs[p], m) = 0})

InitLive ==
    /\ hs = [p \in {1, 2} |-> NewMultiHandler("keygen", p)]
    /\ net = {}
    /\ faults = 0
    /\ last = Event("init", 0)
    /\ pc = [t \in Threads |-> Idle]
    /\ call = NoCall

NextLive ==
    \/ \E p \in DOMAIN hs : \E j \in Peers : ReceiveHonest(p, j)
    \/ \E p \in DOMAIN hs : Deliver(p)
    \/ \E p \in DOMAIN hs : Process(p)

\* A message arrives at some handler.
Delivery == \E p \in {1, 2} : Deliver(p) \/ ReceiveHonest(p, 3)

\* Some driver calls ProcessRound.
Processing == \E p \in {1, 2} : Process(p)

\* Every message is eventually delivered (there are finitely many), and the
\* drivers keep calling ProcessRound.
Fairness == WF_vars(Delivery) /\ WF_vars(Processing)

SpecLive == InitLive /\ [][NextLive]_vars /\ Fairness

\* The fields of the two handlers agree, and so does what the driver reads
\* as the result.
SameState(h, g) ==
    /\ g.cur = h.cur
    /\ g.Messages = h.Messages /\ g.Broadcast = h.Broadcast
    /\ g.BroadcastHashes = h.BroadcastHashes
    /\ g.Out = h.Out
    /\ g.Err = h.Err
    /\ GetResultOrErr(g) = GetResultOrErr(h)

\* ProcessRound does the same on the two handlers and returns the same.
SameProcessRound(h, g) ==
    /\ ProcessRound(g).fin = ProcessRound(h).fin
    /\ ProcessRound(g).ret = ProcessRound(h).ret
    /\ Result(ProcessRound(g).h) = Result(ProcessRound(h).h)

\* C10: a handler loaded from the stored form of handler h has the fields
\* of h, and does what h does on ProcessRound, also after one more message.
C10_RoundTrip ==
    \A p \in Handlers :
        LET h == hs[p]
            g == MultiHandlerFromJSON(MarshalJSON(hs[p]))
        IN  ~h.panicked =>
              /\ SameState(h, g)
              /\ SameProcessRound(h, g)
              /\ \A j \in Peers : \A m \in RoundMsgs(h, j) :
                    /\ SameState(AddReceivedMsgs(h, m), AddReceivedMsgs(g, m))
                    /\ SameProcessRound(AddReceivedMsgs(h, m), AddReceivedMsgs(g, m))

---------------------------------------------------------------------------
(* Properties of two handlers *)

\* Handler h has finalized round n.
Finalized(h, n) == h.cur > n \/ (h.cur = n /\ h.ResultObj # NilObj)

\* Sender j's round-r broadcast is queued at p and at q with different data.
Equivocated(p, q, j, r) ==
    /\ hs[p].Broadcast[r][j] # NilObj
    /\ hs[q].Broadcast[r][j] # NilObj
    /\ hs[p].Broadcast[r][j].Data # hs[q].Broadcast[r][j].Data

\* C6: two handlers that hold different round-r broadcasts of one sender
\* compute different echo hashes for round r, and they do not both
\* finalize round r+1.
C6_EquivocationDetected ==
    \A p \in Handlers : \A q \in Handlers : \A j \in Parties :
      \A r \in 2..(FinalRoundNumber - 1) :
        Equivocated(p, q, j, r) =>
          /\ (hs[p].BroadcastHashes[r] # NilHash /\ hs[q].BroadcastHashes[r] # NilHash)
               => hs[p].BroadcastHashes[r] # hs[q].BroadcastHashes[r]
          /\ ~(Finalized(hs[p], r + 1) /\ Finalized(hs[q], r + 1))

C6_Witness ==
    \E p \in Handlers : \E q \in Handlers : \E j \in Parties :
      \E r \in 2..(FinalRoundNumber - 1) :
        /\ Equivocated(p, q, j, r)
        /\ hs[p].cur = r + 1 /\ ReceivedAll(hs[p])
        /\ last.p = p /\ last.op = "none"
        /\ hs[p].Err = ErrorOf(BroadcastVerificationFailed, <<>>)

\* C9: the Configs of two handlers that completed the keygen agree on the
\* public records of all parties, on the RID and on the chain key.
C9_ConfigsAgree ==
    \A p \in Handlers : \A q \in Handlers :
        (/\ hs[p].proto = "keygen" /\ hs[q].proto = "keygen"
         /\ Result(hs[p]).res # NilObj /\ Result(hs[q]).res # NilObj)
          => /\ Result(hs[p]).res.Public = Result(hs[q]).res.Public
             /\ Result(hs[p]).res.RID = Result(hs[q]).res.RID
             /\ Result(hs[p]).res.ChainKey = Result(hs[q]).res.ChainKey

C9_Witness ==
    \E p \in Handlers : \E q \in Handlers :
        /\ p # q
        /\ Result(hs[p]).res # NilObj /\ Result(hs[q]).res # NilObj
        /\ Result(hs[p]).res.kind = "Config" /\ Result(hs[q]).res.kind = "Config"

\* No call can move handler p forward any more: it is down, or nothing is
\* left to deliver to it and ProcessRound neither advances nor finishes.
Stalled(p) ==
    \/ hs[p].panicked
    \/ /\ \A m \in net : m.dst # p
       /\ \A j \in Peers :
            \A m \in RoundMsgsUpTo(hs[p], j, 0) :
               Deviation(hs[p], m) = 0 => duplicate(hs[p], m)
       /\ ProcessRound(hs[p]).fin \in {"none", "panic", "abort"}

\* C8: with honest parties and every message delivered, no handler is left
\* without its result once no call can move any handler forward.
C8_NoHandlerStalls ==
    (\A p \in Handlers : Stalled(p) \/ Result(hs[p]).res # NilObj)
      => \A p \in Handlers : Result(hs[p]).res # NilObj

---------------------------------------------------------------------------
(* Properties of ReceivedAll and of ProcessRound before it holds *)

\* Every message the current round expects is in the queues: a broadcast of
\* every party if the round has a broadcast, a P2P message of every other
\* party if the round has one.
ExpectedStored(h) ==
    /\ IsBroadcastRound(h.proto, h.cur) =>
          {j \in Parties : h.Broadcast[h.cur][j] # NilObj} = Parties
    /\ expectsNormalMessage(h.proto, h.cur) =>
          OtherPartyIDs(h.self) \subseteq {j \in Parties : h.Messages[h.cur][j] # NilObj}

\* C11: a ProcessRound call made while a message of the current round is
\* still missing returns no messages, does not finalize, and leaves the
\* current round, the two queues, the out queue, the error and the result
\* as they were.
C11_ProcessRoundBeforeReceivedAll ==
    [][\A p \in Handlers :
          (ProcessStep(p) /\ ~ExpectedStored(hs[p])) =>
             /\ ProcessRound(hs[p]).ret = <<>>
             /\ last'.op = "none"
             /\ hs'[p].cur = hs[p].cur
             /\ hs'[p].Messages = hs[p].Messages
             /\ hs'[p].Broadcast = hs[p].Broadcast
             /\ hs'[p].Out = hs[p].Out
             /\ hs'[p].Err = hs[p].Err
             /\ hs'[p].ResultObj = hs[p].ResultObj]_vars

C11_Witness ==
    \E p \in Handlers :
        /\ last.p = p /\ last.op = "none"
        /\ hs[p].cur >= 2 /\ ~ExpectedStored(hs[p])
        /\ hs[p].Err = NilObj

\* C12: ReceivedAll holds for the current round exactly when every message
\* the round expects is in the queues.
C12_ReceivedAllExact ==
    \A p \in Handlers : ReceivedAll(hs[p]) <=> ExpectedStored(hs[p])

C12_Witness ==
    \E p \in Handlers :
        /\ last.p = p /\ last.op = "receive"
        /\ hs[p].proto = "sign" /\ hs[p].cur \in {2, 3, 4}
        /\ ReceivedAll(hs[p])

---------------------------------------------------------------------------
(* One handler that is also offered messages with a wrong header or with
   data that cannot be decoded *)

OtherSSID == "other-ssid"

OtherProtocol(proto) == IF proto = "keygen" THEN "sign" ELSE "keygen"

\* A party id that is not in the party set.
UnknownParty == 4

\* The messages an honest party j sends to handler h for its current round.
InOrder(h, j) == {m \in RoundMsgsUpTo(h, j, 0) : Deviation(h, m) = 0}

\* The message held in the queue slot that msg belongs to.
Slot(h, msg) ==
    IF msg.Broadcast THEN h.Broadcast[msg.RoundNumber][msg.From]
    ELSE h.Messages[msg.RoundNumber][msg.From]

\* Message m with one field changed: "offer-mismatched" for another SSID,
\* protocol id or recipient, "offer-past" for a round before the current
\* one, "offer-invalid" for an unknown sender, no data or a round after the
\* final one, "offer-garbled" for data that cannot be decoded,
\* "offer-duplicate" for other data when the handler already holds a
\* message of that round, sender and kind.
Malformed(h, m) ==
    {[kind |-> "offer-mismatched", msg |-> [m EXCEPT !.SSID = OtherSSID]],
     [kind |-> "offer-mismatched", msg |-> [m EXCEPT !.Protocol = OtherProtocol(h.proto)]],
     [kind |-> "offer-invalid", msg |-> [m EXCEPT !.From = UnknownParty]],
     [kind |-> "offer-invalid", msg |-> [m EXCEPT !.Data = Nil]],
     [kind |-> "offer-invalid", msg |-> [m EXCEPT !.RoundNumber = FinalRoundNumber + 1]],
     [kind |-> "offer-garbled", msg |-> [m EXCEPT !.Data = "garbled"]]}
    \cup {[kind |-> "offer-mismatched", msg |-> [m EXCEPT !.To = k]] :
              k \in OtherPartyIDs(h.self)}
    \cup {[kind |-> "offer-past", msg |-> [m EXCEPT !.RoundNumber = r]] :
              r \in 1..(h.cur - 1)}
    \cup {[kind |-> "offer-duplicate", msg |-> [m EXCEPT !.Data = d]] :
              d \in {x \in {"alt"} : Slot(h, m) # NilObj}}

\* An honest message of peer j arrives: AddReceivedMsgs.
ReceiveInOrder(p, j) == PeerReceive(p, j, InOrder(hs[p], j))

\* A malformed message of peer j arrives: AddReceivedMsgs.
Offer(p, j) ==
    /\ ~hs[p].panicked
    /\ \E m \in InOrder(hs[p], j) : \E o \in Malformed(hs[p], m) :
         /\ o.kind = "offer-garbled" =>
               (j \in Faulty /\ faults < MaxFaults /\ ~duplicate(hs[p], m))
         /\ faults' = IF o.kind = "offer-garbled" THEN faults + 1 ELSE faults
         /\ hs' = [hs EXCEPT ![p] = AddReceivedMsgs(hs[p], o.msg)]
         /\ last' = Event(o.kind, p)
    /\ UNCHANGED <<net, pc, call>>

\* The driver passes a mismatched message of peer j to Accept itself.
AcceptCall(p, j) ==
    /\ ~hs[p].panicked
    /\ j \in Faulty /\ faults < MaxFaults
    /\ \E m \in InOrder(hs[p], j) : \E o \in Malformed(hs[p], m) :
         /\ o.kind = "offer-mismatched"
         /\ hs' = [hs EXCEPT ![p] = Accept(hs[p], o.msg)]
    /\ faults' = faults + 1
    /\ last' = Event("accept", p)
    /\ UNCHANGED <<net, pc, call>>

NextOffer ==
    \/ \E p \in DOMAIN hs : \E j \in Peers : ReceiveInOrder(p, j)
    \/ \E p \in DOMAIN hs : Process(p)
    \/ \E p \in DOMAIN hs : \E j \in Peers : Offer(p, j)
    \/ \E p \in DOMAIN hs : \E j \in Peers : AcceptCall(p, j)

SpecOffer == Init /\ [][NextOffer]_vars

\* Messages of the peers and of an unknown party, addressed to the handler
\* or to everybody, with every combination of the other header fields.
Headers(h) ==
    { Message(ssid, from, to, proto, r, data, bc, NilHash) :
        <<ssid, from, to, proto, r, data, bc>> \in
            {SessionSSID, OtherSSID} \X (OtherPartyIDs(h.self) \cup {UnknownParty})
            \X {0, h.self} \X Protocols \X (0..(FinalRoundNumber + 1))
            \X {"ok", Nil} \X BOOLEAN }

\* What CanAccept checks whatever the round number: recipient, protocol id,
\* SSID, sender, content.
HeaderMatches(h, msg) ==
    /\ msg.To \in {0, h.self}
    /\ msg.Protocol = h.proto
    /\ msg.SSID = SessionSSID
    /\ msg.From \in Parties
    /\ msg.Data # Nil

C14_MismatchedNeverMutates ==
    [][\A p \in Handlers :
          (last'.p = p /\ last'.op \in {"offer-mismatched", "accept"}) =>
             /\ hs'[p].Messages = hs[p].Messages
             /\ hs'[p].Broadcast = hs[p].Broadcast
             /\ hs'[p].cur = hs[p].cur
             /\ hs'[p].BroadcastHashes = hs[p].BroadcastHashes
             /\ hs'[p].Out = hs[p].Out
             /\ hs'[p].Err = hs[p].Err
             /\ hs'[p].ResultObj = hs[p].ResultObj]_vars

\* C16: a message whose data cannot be decoded leaves no entry in the
\* queues and records no abort, and the well-formed message of the same
\* round, sender and kind is stored when it arrives afterwards.
C16_ContentErrorDropped ==
    [][\A p \in Handlers :
          (last'.p = p /\ last'.op = "offer-garbled") =>
             /\ hs'[p].Messages = hs[p].Messages
             /\ hs'[p].Broadcast = hs[p].Broadcast
             /\ hs'[p].Err = hs[p].Err
             /\ hs'[p].Out = hs[p].Out
             /\ \A j \in Peers : \A m \in InOrder(hs[p], j) :
                   ~duplicate(hs[p], m) => Slot(AddReceivedMsgs(hs'[p], m), m) = m]_vars

\* C15: a queue slot of a peer that holds a message keeps that message: a
\* later message for the slot is discarded, and no call replaces or removes
\* the stored one.
C15_SlotNeverReplaced ==
    [][\A p \in Handlers : \A r \in QueueRounds : \A j \in OtherPartyIDs(p) :
          /\ hs[p].Broadcast[r][j] # NilObj =>
                hs'[p].Broadcast[r][j] = hs[p].Broadcast[r][j]
          /\ hs[p].Messages[r][j] # NilObj =>
                hs'[p].Messages[r][j] = hs[p].Messages[r][j]]_vars

C15_Witness ==
    \E p \in Handlers :
        /\ last.p = p /\ last.op = "offer-duplicate"
        /\ \E j \in OtherPartyIDs(p) : hs[p].Broadcast[hs[p].cur][j] # NilObj

---------------------------------------------------------------------------
(* Properties of aborting *)

\* The handler has neither an error nor a result.
Unfinished(h) == h.Err = NilObj /\ h.ResultObj = NilObj

\* C17: an abort message (round number 0) of peer j, passed to Accept or
\* to AddReceivedMsgs on a handler with neither error nor result, records
\* an error with j as the only culprit, leaves the queues as they were and
\* does not advance the round.
C17_PeerAbortNamesPeer ==
    \A p \in Handlers : \A j \in Peers :
        (Unfinished(hs[p]) /\ ~hs[p].panicked) =>
            \A g \in {Accept(hs[p], AbortMsg(hs[p], j)),
                       AddReceivedMsgs(hs[p], AbortMsg(hs[p], j))} :
               /\ g.Err = ErrorOf(AbortedByPeer, <<j>>)
               /\ g.Messages = hs[p].Messages
               /\ g.Broadcast = hs[p].Broadcast
               /\ g.cur = hs[p].cur
               /\ g.ResultObj = NilObj

C17_Witness ==
    \E p \in Handlers : \E j \in Peers :
        /\ last.p = p /\ last.op = "receive"
        /\ hs[p].cur >= 2
        /\ hs[p].Err = ErrorOf(AbortedByPeer, <<j>>)

\* C18: the error recorded for a mismatch of the echo hashes names as its
\* culprit a party whose queued message of the current round carries the
\* wrong hash.
C18_MismatchNamesSender ==
    \A p \in Handlers :
        (hs[p].Err # NilObj /\ hs[p].Err.Err = BroadcastVerificationFailed) =>
            \E j \in OtherPartyIDs(p) :
               /\ hs[p].Err.Culprits = <<j>>
               /\ \/ /\ hs[p].Messages[hs[p].cur][j] # NilObj
                     /\ hs[p].Messages[hs[p].cur][j].BroadcastVerification
                          # hs[p].BroadcastHashes[hs[p].cur - 1]
                  \/ /\ hs[p].Broadcast[hs[p].cur][j] # NilObj
                     /\ hs[p].Broadcast[hs[p].cur][j].BroadcastVerification
                          # hs[p].BroadcastHashes[hs[p].cur - 1]

\* C19: Stop on a handler with neither error nor result records an error,
\* which Result returns, and queues the abort message holding the error
\* string.
C19_StopAbortsIdle ==
    \A p \in Handlers :
        (Unfinished(hs[p]) /\ ~hs[p].panicked) =>
            /\ Stop(hs[p]).Err # NilObj
            /\ Result(Stop(hs[p])) = [res |-> NilObj, err |-> Stop(hs[p]).Err]
            /\ AbortQueued(Stop(hs[p]))

---------------------------------------------------------------------------
(* One handler called from two goroutines *)

\* mtx is held by the goroutine that is inside Accept or Result; nothing
\* else takes it.
MtxFree == \A t \in Threads : pc[t].at \notin {"accept", "result"}

\* Accept: h.mtx.Lock().
AcceptLock(t, p, j) ==
    /\ pc[t] = Idle /\ MtxFree
    /\ ~hs[p].panicked
    /\ \E m \in {x \in RoundMsgs(hs[p], j) : Deviation(hs[p], x) = 0} :
         /\ CanAccept(hs[p], m) /\ ~duplicate(hs[p], m)
         /\ pc' = [pc EXCEPT ![t] = [at |-> "accept", msg |-> m, snap |-> NilObj]]
    /\ UNCHANGED <<hs, net, faults, last, call>>

\* Accept: the body and the deferred h.mtx.Unlock().
AcceptUnlock(t, p) ==
    /\ pc[t].at = "accept"
    /\ hs' = [hs EXCEPT ![p] = Accept(hs[p], pc[t].msg)]
    /\ pc' = [pc EXCEPT ![t] = Idle]
    /\ last' = Event("accepted", p)
    /\ UNCHANGED <<net, faults, call>>

\* Result: h.mtx.Lock().
ResultLock(t, p) ==
    /\ pc[t] = Idle /\ MtxFree
    /\ ~hs[p].panicked
    /\ last.op # "result"
    /\ pc' = [pc EXCEPT ![t] = [at |-> "result", msg |-> NilObj, snap |-> NilObj]]
    /\ UNCHANGED <<hs, net, faults, last, call>>

\* Result: the reads and the deferred h.mtx.Unlock().
ResultUnlock(t, p) ==
    /\ pc[t].at = "result"
    /\ pc' = [pc EXCEPT ![t] = Idle]
    /\ last' = Event("result", p)
    /\ UNCHANGED <<hs, net, faults, call>>

\* ProcessRound begins, without taking mtx: it reads the handler.  The
\* driver calls it once all messages of the round are in.
ProcessEnter(t, p) ==
    /\ pc[t] = Idle
    /\ ~hs[p].panicked
    /\ ReceivedAll(hs[p])
    /\ AbortCount(hs[p]) < MaxAborts
    /\ pc' = [pc EXCEPT ![t] = [at |-> "process", msg |-> NilObj, snap |-> hs[p]]]
    /\ UNCHANGED <<hs, net, faults, last, call>>

\* Handler g with the queue entries and the error of h where g has none.
Overlay(g, h) ==
    [g EXCEPT
       !.Messages = [r \in QueueRounds |-> [j \in Parties |->
            IF g.Messages[r][j] # NilObj THEN g.Messages[r][j] ELSE h.Messages[r][j]]],
       !.Broadcast = [r \in QueueRounds |-> [j \in Parties |->
            IF g.Broadcast[r][j] # NilObj THEN g.Broadcast[r][j] ELSE h.Broadcast[r][j]]],
       !.Err = IF g.Err # NilObj THEN g.Err ELSE h.Err]

\* What an unsynchronized ProcessRound leaves behind when the handler was
\* snap as it began and is h as it ends: it acted on h, or it acted on what
\* it read at the beginning and its writes were laid over h.
ProcessOutcomes(snap, h) ==
    {ProcessRound(h).h, Overlay(ProcessRound(snap).h, h)}

\* ProcessRound ends.
ProcessLeave(t, p) ==
    /\ pc[t].at = "process"
    /\ \E g \in ProcessOutcomes(pc[t].snap, hs[p]) :
         hs' = [hs EXCEPT ![p] = g]
    /\ pc' = [pc EXCEPT ![t] = Idle]
    /\ last' = Event("processed", p)
    /\ UNCHANGED <<net, faults, call>>

NextConc ==
    \/ \E t \in Threads : \E p \in DOMAIN hs : \E j \in Peers : AcceptLock(t, p, j)
    \/ \E t \in Threads : \E p \in DOMAIN hs : AcceptUnlock(t, p)
    \/ \E t \in Threads : \E p \in DOMAIN hs : ResultLock(t, p)
    \/ \E t \in Threads : \E p \in DOMAIN hs : ResultUnlock(t, p)
    \/ \E t \in Threads : \E p \in DOMAIN hs : ProcessEnter(t, p)
    \/ \E t \in Threads : \E p \in DOMAIN hs : ProcessLeave(t, p)

SpecConc == Init /\ [][NextConc]_vars

\* C20: at most one goroutine is inside Accept, ProcessRound or Result of
\* the handler at a time.
C20_MutuallyExclusive ==
    Cardinality({t \in Threads : pc[t].at # "idle"}) <= 1

---------------------------------------------------------------------------
(* Properties of the messages ProcessRound emits *)

\* C21: the messages of a ProcessRound call that finalizes round r are the
\* handler's out queue; each carries the session's SSID and protocol id,
\* the handler's own id as sender, round number r + 1 and the handler's
\* echo hash of round r, and each broadcast among them is stored in the
\* handler's broadcast queue of round r + 1 under its own id.
C21_EmittedHeaders ==
    [][\A p \in Handlers :
          (ProcessStep(p) /\ last'.op = "next") =>
             /\ ProcessRound(hs[p]).ret = hs'[p].Out
             /\ Len(hs'[p].Out) > 0
             /\ \A i \in 1..Len(hs'[p].Out) :
                   LET m == hs'[p].Out[i] IN
                   /\ m.SSID = SessionSSID
                   /\ m.From = p
                   /\ m.Protocol = hs[p].proto
                   /\ m.RoundNumber = hs[p].cur + 1
                   /\ m.BroadcastVerification = hs'[p].BroadcastHashes[hs[p].cur]
                   /\ hs[p].cur >= 2 =>
                         m.BroadcastVerification = EchoHash(hs[p].Broadcast[hs[p].cur])
                   /\ m.Broadcast => hs'[p].Broadcast[hs[p].cur + 1][p] = m]_vars

C21_Witness ==
    \E p \in Handlers :
        /\ last.p = p /\ last.op = "next"
        /\ hs[p].cur >= 3
        /\ Len(hs[p].Out) > 1
        /\ hs[p].Out[1].Broadcast
        /\ hs[p].Out[1].BroadcastVerification # NilHash

---------------------------------------------------------------------------
(* Session creation: round.NewSession and the handler started on it *)

\* The longest party list given to StartKeygen.
MaxPartyList == 3

\* How many values the rounds of one session write to its hash state.
MaxHashWrites == 2

\* party.NewIDSlice: a sorted copy of the list, duplicates included.
RECURSIVE InsertID(_, _)
InsertID(ids, id) ==
    IF ids = <<>> THEN <<id>>
    ELSE IF id <= Head(ids) THEN <<id>> \o ids
    ELSE <<Head(ids)>> \o InsertID(Tail(ids), id)

RECURSIVE NewIDSlice(_)
NewIDSlice(ids) ==
    IF ids = <<>> THEN <<>> ELSE InsertID(NewIDSlice(Tail(ids)), Head(ids))

\* IDSlice.Valid: sorted, with no duplicates.
IDSliceValid(ids) == \A i \in 2..Len(ids) : ids[i - 1] < ids[i]

\* IDSlice.Contains.
IDSliceContains(ids, id) == \E i \in 1..Len(ids) : ids[i] = id

\* IDSlice.Remove.
IDSliceRemove(ids, id) == SelectSeq(ids, LAMBDA x : x # id)

\* hash.Hash: the values written so far; Sum is injective in them.
HashNew == <<>>
WriteAny(h, domain, bytes) == Append(h, <<domain, bytes>>)
HashSum(h) == <<"sum", h>>

\* cmp.Keygen: the session Info of a key generation.
KeygenInfo(self, participants, threshold) ==
    [ProtocolID |-> "keygen", FinalRoundNumber |-> FinalRoundNumber,
     SelfID |-> self, PartyIDs |-> participants, Threshold |-> threshold,
     Group |-> "secp256k1"]

\* NewSession, hashing the party list as given instead of its sorted copy.
NewSessionHashingGivenOrder(Info, sessionID) ==
    LET PartyIDsSlice == NewIDSlice(Info.PartyIDs)
        n == Len(PartyIDsSlice)
        h0 == IF sessionID # Nil THEN WriteAny(HashNew, "Session ID", sessionID)
              ELSE HashNew
        h1 == WriteAny(h0, "Protocol ID", Info.ProtocolID)
        h2 == IF Info.Group # Nil THEN WriteAny(h1, "Group Name", Info.Group)
              ELSE h1
        h3 == WriteAny(h2, "IDSlice", Info.PartyIDs)
        h  == WriteAny(h3, "Threshold", Info.Threshold)
    IN  IF ~IDSliceValid(PartyIDsSlice) \/ ~IDSliceContains(PartyIDsSlice, Info.SelfID)
           \/ Info.Threshold < 0 \/ n <= 0 \/ Info.Threshold > n - 1
        THEN [helper |-> NilObj, err |-> "session: invalid"]
        ELSE [helper |-> [Info |-> Info, PartyIDsSlice |-> PartyIDsSlice,
                          OtherPartyIDsSlice |-> IDSliceRemove(PartyIDsSlice, Info.SelfID),
                          Ssid |-> HashSum(h), HashData |-> h],
              err |-> Nil]

\* round.NewSession.  The thresholds of the model are far below
\* math.MaxUint32, so of the range check only the lower bound is kept.
NewSession(Info, sessionID) ==
    LET PartyIDsSlice == NewIDSlice(Info.PartyIDs)
        n == Len(PartyIDsSlice)
        h0 == IF sessionID # Nil THEN WriteAny(HashNew, "Session ID", sessionID)
              ELSE HashNew
        h1 == WriteAny(h0, "Protocol ID", Info.ProtocolID)
        h2 == IF Info.Group # Nil THEN WriteAny(h1, "Group Name", Info.Group)
              ELSE h1
        h3 == WriteAny(h2, "IDSlice", PartyIDsSlice)
        h  == WriteAny(h3, "Threshold", Info.Threshold)
    IN  IF ~IDSliceValid(PartyIDsSlice)
        THEN [helper |-> NilObj, err |-> "session: PartyIDsSlice invalid"]
        ELSE IF ~IDSliceContains(PartyIDsSlice, Info.SelfID)
        THEN [helper |-> NilObj, err |-> "session: selfID not included in PartyIDsSlice"]
        ELSE IF Info.Threshold < 0
        THEN [helper |-> NilObj, err |-> "session: threshold is invalid"]
        ELSE IF n <= 0 \/ Info.Threshold > n - 1
        THEN [helper |-> NilObj, err |-> "session: threshold is invalid for number of parties"]
        ELSE [helper |-> [Info |-> Info, PartyIDsSlice |-> PartyIDsSlice,
                          OtherPartyIDsSlice |-> IDSliceRemove(PartyIDsSlice, Info.SelfID),
                          Ssid |-> HashSum(h), HashData |-> h],
              err |-> Nil]

\* Helper.SSID, Helper.N and Helper.UpdateHashState.
SSID(helper) == helper.Ssid
N(helper) == Len(helper.Info.PartyIDs)
UpdateHashState(helper, value) ==
    [helper EXCEPT !.HashData = WriteAny(@, "Value", value)]

\* StartKeygen: NewMultiHandler on the session that keygen's StartFunc
\* creates; the handler is shown by its current round and its Out list.
StartKeygen(opts) ==
    LET r == NewSession(KeygenInfo(opts.Self, opts.Participants, opts.Threshold),
                        opts.SessionId)
    IN  IF r.err # Nil THEN [h |-> NilObj, e |-> r.err]
        ELSE [h |-> [CurrentRound |-> r.helper, Out |-> <<>>], e |-> Nil]

PartyLists == UNION {[1..n -> Parties] : n \in 0..MaxPartyList}
SessionIds == {Nil, "session-1"}

KeygenOptions ==
    [Self : Parties, Participants : PartyLists,
     Threshold : -1..MaxPartyList, SessionId : SessionIds]

\* The driver is about to call StartKeygen with opts.
InitSession ==
    /\ hs = <<>>
    /\ net = {}
    /\ faults = 0
    /\ last = Event("init", 0)
    /\ pc = [t \in Threads |-> Idle]
    /\ \E opts \in KeygenOptions :
          call = [fn |-> "StartKeygen", arg |-> opts, out |-> NilObj, done |-> FALSE]

\* The driver calls StartKeygen.
StartKeygenCall ==
    /\ call.fn = "StartKeygen" /\ ~call.done
    /\ call' = [call EXCEPT !.out = StartKeygen(call.arg), !.done = TRUE]
    /\ UNCHANGED <<hs, net, faults, last, pc>>

\* A round of the session writes a value to the hash state.
UpdateHashStateCall ==
    /\ call.fn = "StartKeygen" /\ call.done /\ call.out.h # NilObj
    /\ Len(call.out.h.CurrentRound.HashData) < 5 + MaxHashWrites
    /\ \E value \in {"rid", "chainkey"} :
          call' = [call EXCEPT !.out.h.CurrentRound =
                                   UpdateHashState(@, value)]
    /\ UNCHANGED <<hs, net, faults, last, pc>>


\* C22: session creation succeeds only when the party list has no duplicate
\* and contains self, and 0 <= t <= n - 1 with n >= 2; in every other case
\* an error is returned, no handler is created and no message is emitted.
C22_SessionCreationChecks ==
    (call.fn = "StartKeygen" /\ call.done) =>
       LET o == call.arg
           n == Len(o.Participants)
           good == /\ \A i, j \in 1..n : i # j => o.Participants[i] # o.Participants[j]
                   /\ \E i \in 1..n : o.Participants[i] = o.Self
                   /\ 0 <= o.Threshold /\ o.Threshold <= n - 1
                   /\ n >= 2
       IN  IF good THEN call.out.e = Nil /\ call.out.h # NilObj
           ELSE call.out.e # Nil /\ call.out.h = NilObj


\* The StartKeygen calls of the parties of the same instance as opts: the
\* same session id and threshold, the same party set in any order, any
\* self of that set.
SameInstance(opts) ==
    {o \in KeygenOptions :
        /\ o.SessionId = opts.SessionId /\ o.Threshold = opts.Threshold
        /\ \E i \in 1..Len(o.Participants) : o.Participants[i] = o.Self
        /\ Len(o.Participants) = Len(opts.Participants)
        /\ {o.Participants[i] : i \in 1..Len(o.Participants)}
             = {opts.Participants[i] : i \in 1..Len(opts.Participants)}}

\* C23: the SSID of a handler, at its creation and after every write of a
\* round to the hash state, is the SSID that every party starting the same
\* instance computes (whatever its self id and the order of its party
\* list), which is the value CanAccept compares a peer's message with.
C23_SameSSID ==
    (call.fn = "StartKeygen" /\ call.done /\ call.out.h # NilObj) =>
       \A o \in SameInstance(call.arg) :
          LET peer == StartKeygen(o) IN
          /\ peer.e = Nil
          /\ SSID(peer.h.CurrentRound) = SSID(call.out.h.CurrentRound)
          /\ \A value \in {"rid", "chainkey"} :
                SSID(UpdateHashState(peer.h.CurrentRound, value))
                   = SSID(call.out.h.CurrentRound)

\* A three-party handler, started on an unsorted party list, whose rounds
\* have written to the hash state.
C23_Witness ==
    /\ call.fn = "StartKeygen" /\ call.done /\ call.out.h # NilObj
    /\ call.arg.Participants = <<3, 1, 2>> /\ call.arg.Self = 2
    /\ Len(call.out.h.CurrentRound.HashData) > 5
    /\ \E o \in SameInstance(call.arg) :
          o.Self # call.arg.Self /\ o.Participants # call.arg.Participants


---------------------------------------------------------------------------
(* The echo-broadcast wrapper: broadcast.New *)

\* The round that follows the first one, and the broadcast contents of the
\* first round's own message.
NextRounds == {[Number |-> 2, Content |-> c] : c \in {"round2", "round2'"}}
BroadcastDatas == {"data-a", "data-b"}

\* broadcast.New, wrapping in every case.
NewAlwaysWrapped(helper, nextRound, msg) ==
    [Helper |-> helper, Round |-> nextRound,
     received |-> [j \in {helper.Info.SelfID} |-> msg.BroadcastData]]

\* broadcast.New.
New(helper, nextRound, msg) ==
    IF N(helper) = 2 THEN nextRound
    ELSE [Helper |-> helper, Round |-> nextRound,
          received |-> [j \in {helper.Info.SelfID} |-> msg.BroadcastData]]

\* The first round of a created session calls broadcast.New.
BroadcastNewCall ==
    /\ call.fn = "StartKeygen" /\ call.done /\ call.out.h # NilObj
    /\ \E nextRound \in NextRounds, data \in BroadcastDatas :
          LET helper == call.out.h.CurrentRound
              msg == [BroadcastData |-> data]
          IN  call' = [fn |-> "broadcast.New",
                       arg |-> [helper |-> helper, nextRound |-> nextRound, msg |-> msg],
                       out |-> New(helper, nextRound, msg), done |-> TRUE]
    /\ UNCHANGED <<hs, net, faults, last, pc>>

NextSession == StartKeygenCall \/ UpdateHashStateCall \/ BroadcastNewCall

SpecSession == InitSession /\ [][NextSession]_vars

\* The value returned by broadcast.New is a Round1 wrapper.
IsRound1(r) == "received" \in DOMAIN r

---------------------------------------------------------------------------
(* Config: CanSign, Derive, DeriveBIP32 and DerivePath *)

\* The curve is modelled as a group of prime order GroupOrder with base
\* point G; a scalar is its residue and a point k*G is shown by k.
GroupOrder == 7
Scalars == 0..(GroupOrder - 1)
ActOnBase(s) == s
Act(s, P) == (s * P) % GroupOrder
PointAdd(P, Q) == (P + Q) % GroupOrder
ScalarAdd(a, b) == (a + b) % GroupOrder
ScalarInvert(a) == CHOOSE b \in Scalars : (a * b) % GroupOrder = 1

\* params.SecBytes
SecBytes == 32

\* polynomial.Lagrange: the coefficient of party j for interpolation at 0
\* over the parties ids.
RECURSIVE LagrangeProduct(_, _)
LagrangeProduct(ids, j) ==
    IF ids = {} THEN 1
    ELSE LET k == CHOOSE x \in ids : TRUE
             rest == LagrangeProduct(ids \ {k}, j)
         IN  IF k = j THEN rest
             ELSE (rest * k * ScalarInvert((k - j + GroupOrder) % GroupOrder)) % GroupOrder
Lagrange(ids) == [j \in ids |-> LagrangeProduct(ids, j)]

\* Config.PublicPoint.
RECURSIVE SumShares(_, _, _)
SumShares(c, l, ids) ==
    IF ids = {} THEN 0
    ELSE LET j == CHOOSE x \in ids : TRUE
         IN  PointAdd(SumShares(c, l, ids \ {j}), Act(l[j], c.Public[j].ECDSA))
PublicPoint(c) == SumShares(c, Lagrange(DOMAIN c.Public), DOMAIN c.Public)

\* ValidThreshold.
ValidThreshold(t, n) ==
    IF t < 0 THEN FALSE
    ELSE IF n <= 0 \/ t > n - 1 THEN FALSE
    ELSE TRUE

\* Config.CanSign, without the test of the signers' order.
CanSignUnsorted(c, signers) ==
    IF ~ValidThreshold(c.Threshold, Len(signers)) THEN FALSE
    ELSE IF ~IDSliceContains(signers, c.ID) THEN FALSE
    ELSE \A i \in 1..Len(signers) : signers[i] \in DOMAIN c.Public

\* Config.CanSign.
CanSign(c, signers) ==
    IF ~ValidThreshold(c.Threshold, Len(signers)) THEN FALSE
    ELSE IF ~IDSliceValid(signers) THEN FALSE
    ELSE IF ~IDSliceContains(signers, c.ID) THEN FALSE
    ELSE \A i \in 1..Len(signers) : signers[i] \in DOMAIN c.Public

\* Config.Derive, adding adjust to the share of the receiver itself.
DeriveInPlace(c, adjust, newChainKey) ==
    LET ck == IF newChainKey.len <= 0 THEN c.ChainKey ELSE newChainKey
        d  == [c EXCEPT !.ECDSA = ScalarAdd(@, adjust), !.ChainKey = ck,
                        !.Public = [k \in DOMAIN c.Public |->
                                       [ECDSA |-> PointAdd(c.Public[k].ECDSA, ActOnBase(adjust))]]]
    IN  IF ck.len # SecBytes
        THEN [c |-> c, out |-> NilObj, err |-> "expecte 32 bytes for chain key"]
        ELSE [c |-> [c EXCEPT !.ECDSA = ScalarAdd(@, adjust)], out |-> d, err |-> Nil]

\* Config.Derive: the receiver after the call, the new Config and the error.
Derive(c, adjust, newChainKey) ==
    LET ck == IF newChainKey.len <= 0 THEN c.ChainKey ELSE newChainKey
        adjustG == ActOnBase(adjust)
        public == [k \in DOMAIN c.Public |->
                      [ECDSA |-> PointAdd(c.Public[k].ECDSA, adjustG)]]
    IN  IF ck.len # SecBytes
        THEN [c |-> c, out |-> NilObj, err |-> "expecte 32 bytes for chain key"]
        ELSE [c |-> c,
              out |-> [ID |-> c.ID, Threshold |-> c.Threshold,
                       ECDSA |-> ScalarAdd(c.ECDSA, adjust),
                       ChainKey |-> ck, Public |-> public],
              err |-> Nil]

\* A 32-bit index i is shown as <<h, n>> with i = h * 2^31 + n.
Unhardened(n) == <<0, n>>
Hardened(n) == <<1, n>>

\* bip32.DeriveScalar: fails for a hardened index; otherwise a scalar and a
\* chain key fixed by the public point, the chain key and the index.
DeriveScalar(publicPoint, chainKey, i) ==
    IF i[1] = 1
    THEN [scalar |-> 0, newChainKey |-> chainKey, err |-> "hardened index"]
    ELSE [scalar |-> (3 * publicPoint + i[2] + 1) % GroupOrder,
          newChainKey |-> [len |-> SecBytes, of |-> <<chainKey.of, publicPoint, i[2]>>],
          err |-> Nil]

\* Config.DeriveBIP32.
DeriveBIP32(c, i) ==
    LET d == DeriveScalar(PublicPoint(c), c.ChainKey, i)
    IN  IF d.err # Nil THEN [c |-> c, out |-> NilObj, err |-> d.err]
        ELSE Derive(c, d.scalar, d.newChainKey)

\* strconv.ParseUint(s, 0, 32): the value and the error; a segment with
\* invalid digits gives 0 and a syntax error.
ParseUint(s) ==
    CASE s = "0" -> [k |-> Unhardened(0), err |-> Nil]
      [] s = "1" -> [k |-> Unhardened(1), err |-> Nil]
      [] s = "2147483648" -> [k |-> Hardened(0), err |-> Nil]
      [] OTHER -> [k |-> Unhardened(0), err |-> "invalid syntax"]

\* Config.DerivePath on the segments of strings.Split(path, "/").  The
\* segments 1 to 3 are parsed before the length is tested, and the errors
\* of ParseUint are overwritten without being read.
DerivePath(c, pathSlice) ==
    IF Len(pathSlice) < 4
    THEN [c |-> c, out |-> NilObj, err |-> Nil, panicked |-> TRUE]
    ELSE
    LET k1 == ParseUint(pathSlice[2]).k
        k2 == ParseUint(pathSlice[3]).k
        k3 == ParseUint(pathSlice[4]).k
        d1 == DeriveBIP32(c, k1)
        d2 == DeriveBIP32(d1.out, k2)
        d3 == DeriveBIP32(d2.out, k3)
        fail(e) == [c |-> c, out |-> NilObj, err |-> e, panicked |-> FALSE]
    IN  IF Len(pathSlice) # 4 \/ pathSlice[1] # "m" THEN fail("Invalid derivation path")
        ELSE IF d1.err # Nil THEN fail(d1.err)
        ELSE IF d2.err # Nil THEN fail(d2.err)
        ELSE IF d3.err # Nil THEN fail(d3.err)
        ELSE [c |-> c, out |-> d3.out, err |-> Nil, panicked |-> FALSE]

\* The Config of party self after a key generation with threshold t whose
\* secret polynomial has the coefficients a0, a1, a2.
Share(a0, a1, a2, j) == (a0 + a1 * j + a2 * j * j) % GroupOrder
KeygenConfig(self, t, a0, a1, a2) ==
    [ID |-> self, Threshold |-> t, ECDSA |-> Share(a0, a1, a2, self),
     ChainKey |-> [len |-> SecBytes, of |-> "chainkey"],
     Public |-> [j \in Parties |-> [ECDSA |-> ActOnBase(Share(a0, a1, a2, j))]]]

Configs ==
    {KeygenConfig(self, 0, a0, 0, 0) : self \in Parties, a0 \in Scalars}
    \cup {KeygenConfig(self, 1, a0, a1, 0) : self \in Parties, a0 \in Scalars, a1 \in Scalars}
    \cup {KeygenConfig(self, 2, a0, a1, 3) : self \in Parties, a0 \in Scalars, a1 \in Scalars}

ChainKeys == {[len |-> 0, of |-> "empty"], [len |-> SecBytes, of |-> "fresh"],
              [len |-> 16, of |-> "short"]}

Segments == {"0", "1", "0'", "2147483648"}
Paths ==
    {<<"m", a, b, c>> : a \in Segments, b \in Segments, c \in Segments}
    \cup {<<"m", "0", "0">>, <<"x", "0", "0", "0">>, <<"m", "0", "0", "0", "0">>}

\* Signer lists: party ids and the id of a stranger, in any order.
SignerLists == UNION {[1..n -> Parties \cup {UnknownParty}] : n \in 0..MaxPartyList}

\* A party holds the Config c.
InitConfig ==
    /\ hs = <<>>
    /\ net = {}
    /\ faults = 0
    /\ last = Event("init", 0)
    /\ pc = [t \in Threads |-> Idle]
    /\ \E c \in Configs : call = [fn |-> "Config", c |-> c]

DeriveCall ==
    /\ call.fn = "Config"
    /\ \E adjust \in Scalars, newChainKey \in ChainKeys :
          call' = [fn |-> "Derive", before |-> call.c,
                   arg |-> [adjust |-> adjust, newChainKey |-> newChainKey],
                   ret |-> Derive(call.c, adjust, newChainKey)]
    /\ UNCHANGED <<hs, net, faults, last, pc>>

DerivePathCall ==
    /\ call.fn = "Config"
    /\ \E path \in Paths :
          call' = [fn |-> "DerivePath", before |-> call.c, arg |-> path,
                   ret |-> DerivePath(call.c, path)]
    /\ UNCHANGED <<hs, net, faults, last, pc>>

CanSignCall ==
    /\ call.fn = "Config"
    /\ \E signers \in SignerLists :
          call' = [fn |-> "CanSign", before |-> call.c, arg |-> signers,
                   ret |-> CanSign(call.c, signers)]
    /\ UNCHANGED <<hs, net, faults, last, pc>>

NextConfig == DeriveCall \/ DerivePathCall \/ CanSignCall

SpecConfig == InitConfig /\ [][NextConfig]_vars

\* C24: DerivePath with a path that has a hardened segment returns a
\* derivation-path error and no derived config, and leaves the config as
\* it was.
C24_HardenedPathRefused ==
    (call.fn = "DerivePath" /\ \E i \in 1..Len(call.arg) : call.arg[i] = "0'") =>
       /\ ~call.ret.panicked
       /\ call.ret.err # Nil
       /\ call.ret.out = NilObj
       /\ call.ret.c = call.before


\* The Configs that the other parties hold after the key generation that
\* gave c: the same public shares, each with its own id and share.
SameKeygen(c) ==
    {d \in Configs : d.Public = c.Public /\ d.Threshold = c.Threshold}

\* C25: a successful Derive(adjust, chainKey) returns a Config in which
\* every public share is the old one plus adjust*G and the own share is the
\* old one plus adjust, so Public[self].ECDSA = ECDSA*G still holds and
\* PublicPoint has moved by adjust*G; every party of the same key generation
\* that derives with the same adjust gets the same PublicPoint; and the
\* Config Derive was called on is as before.
C25_DeriveShiftsShares ==
    (call.fn = "Derive" /\ call.ret.err = Nil) =>
       LET c == call.before
           out == call.ret.out
           adjustG == ActOnBase(call.arg.adjust)
       IN  /\ DOMAIN out.Public = DOMAIN c.Public
           /\ \A k \in DOMAIN c.Public :
                 out.Public[k].ECDSA = PointAdd(c.Public[k].ECDSA, adjustG)
           /\ out.ECDSA = ScalarAdd(c.ECDSA, call.arg.adjust)
           /\ out.Public[out.ID].ECDSA = ActOnBase(out.ECDSA)
           /\ PublicPoint(out) = PointAdd(PublicPoint(c), adjustG)
           /\ \A d \in SameKeygen(c) :
                 LET r == Derive(d, call.arg.adjust, call.arg.newChainKey)
                 IN  r.err = Nil /\ PublicPoint(r.out) = PublicPoint(out)
           /\ call.ret.c = c

\* Derive has succeeded with a non-zero adjust on a threshold-1 Config.
C25_Witness ==
    /\ call.fn = "Derive" /\ call.ret.err = Nil
    /\ call.arg.adjust # 0 /\ call.before.Threshold = 1
    /\ call.before.ECDSA # 0 /\ PublicPoint(call.before) # 0
    /\ Cardinality(SameKeygen(call.before)) = 3

\* C28: CanSign(signers) is true if and only if the signer list is sorted
\* without duplicates, contains the Config's own id, holds only parties of
\* the Config, and has more than t elements.
C28_CanSignIff ==
    call.fn = "CanSign" =>
       LET c == call.before
           signers == call.arg
       IN  call.ret <=>
              /\ \A i \in 2..Len(signers) : signers[i - 1] < signers[i]
              /\ \E i \in 1..Len(signers) : signers[i] = c.ID
              /\ \A i \in 1..Len(signers) : signers[i] \in DOMAIN c.Public
              /\ Len(signers) > c.Threshold

\* CanSign has accepted two signers of a threshold-1 Config.
C28_Witness ==
    /\ call.fn = "CanSign" /\ call.ret
    /\ call.before.Threshold = 1 /\ Len(call.arg) = 2


---------------------------------------------------------------------------
(* Finalize: how a round fills its outbound list *)

\* How many goroutines run the per-peer work of Pool.Parallelize at the
\* same time: the worker of pool.NewPool(1) and the caller.
MaxWorkers == 2

\* The rounds whose Finalize sends P2P messages: keygen round 3 in a loop
\* over OtherPartyIDs, sign rounds 1 to 3 from the closures handed to
\* Pool.Parallelize.
P2PRounds ==
    {[proto |-> "keygen", r |-> 3, parallel |-> FALSE]}
    \cup {[proto |-> "sign", r |-> r, parallel |-> TRUE] : r \in 1..3}

\* Helper.BroadcastMessage and Helper.SendMessage.
BroadcastMessage(out, self, content) ==
    Append(out, [From |-> self, To |-> 0, Broadcast |-> TRUE, Content |-> content])
SendMessage(out, self, content, to) ==
    Append(out, [From |-> self, To |-> to, Broadcast |-> FALSE, Content |-> content])

\* Finalize of round rnd of party self has sent its broadcast and is about
\* to do the per-peer work; read holds, for a peer whose closure has read
\* the variable out and not yet assigned to it, the list it read.
InitFinalize ==
    /\ hs = <<>>
    /\ net = {}
    /\ faults = 0
    /\ last = Event("init", 0)
    /\ pc = [t \in Threads |-> Idle]
    /\ \E rnd \in P2PRounds, self \in Parties :
          call = [fn |-> "Finalize", round |-> rnd, self |-> self,
                  out |-> BroadcastMessage(<<>>, self, rnd.r + 1),
                  todo |-> OtherPartyIDs(self), read |-> <<>>, returned |-> FALSE]

\* keygen round 3: the next iteration of the loop over OtherPartyIDs.
LoopSend ==
    /\ call.fn = "Finalize" /\ ~call.round.parallel /\ call.todo # {}
    /\ LET j == Head(SortedSeq(call.todo))
       IN  call' = [call EXCEPT !.todo = @ \ {j},
                                !.out = SendMessage(@, call.self, call.round.r + 1, j)]
    /\ UNCHANGED <<hs, net, faults, last, pc>>

\* A goroutine of the pool takes the work for peer j, builds the proof and
\* evaluates the argument out of SendMessage.
WorkRead(j) ==
    /\ call.fn = "Finalize" /\ call.round.parallel /\ j \in call.todo
    /\ Cardinality(DOMAIN call.read) < MaxWorkers
    /\ call' = [call EXCEPT !.todo = @ \ {j},
                            !.read = [k \in DOMAIN @ \cup {j} |->
                                         IF k = j THEN call.out ELSE @[k]]]
    /\ UNCHANGED <<hs, net, faults, last, pc>>

\* The goroutine assigns the list returned by SendMessage to out.
WorkWrite(j) ==
    /\ call.fn = "Finalize" /\ call.round.parallel /\ j \in DOMAIN call.read
    /\ call' = [call EXCEPT !.out = SendMessage(call.read[j], call.self, call.round.r + 1, j),
                            !.read = [k \in DOMAIN @ \ {j} |-> @[k]]]
    /\ UNCHANGED <<hs, net, faults, last, pc>>

\* All per-peer work is done: Finalize returns out.
FinalizeReturn ==
    /\ call.fn = "Finalize" /\ ~call.returned
    /\ call.todo = {} /\ DOMAIN call.read = {}
    /\ call' = [call EXCEPT !.returned = TRUE]
    /\ UNCHANGED <<hs, net, faults, last, pc>>

NextFinalize ==
    \/ LoopSend
    \/ \E j \in Parties : WorkRead(j)
    \/ \E j \in Parties : WorkWrite(j)
    \/ FinalizeReturn

SpecFinalize == InitFinalize /\ [][NextFinalize]_vars

\* The recipients of the P2P messages of out, in the order of the list.
Recipients(out) ==
    LET p2p == SelectSeq(out, LAMBDA m : ~m.Broadcast)
    IN  [i \in 1..Len(p2p) |-> p2p[i].To]

\* C26: in the list a round's Finalize returns, the P2P messages are in
\* ascending order of recipient, one for each other party, however the
\* per-peer work was scheduled.
C26_SortedPeerOrder ==
    (call.fn = "Finalize" /\ call.returned) =>
       Recipients(call.out) = SortedSeq(OtherPartyIDs(call.self))


---------------------------------------------------------------------------
(* The Ethereum form of a signature: Signature.SigEthereum *)

\* How many times the driver asks for the Ethereum form of one signature.
MaxSigCalls == 2

\* The points of the curve y^2 = x^3 + 7 over the field of 13 elements, a
\* group of order GroupOrder, in affine coordinates; the identity is shown
\* with the coordinates ToAffine leaves for it.
Identity == [X |-> 0, Y |-> 0]
CurvePoints ==
    {[X |-> x, Y |-> y] : x \in {7, 8, 11}, y \in {5, 8}} \cup {Identity}

\* A field element or scalar as 32 big-endian bytes.
Bytes32(v) == [i \in 1..32 |-> IF i = 32 THEN v % 256 ELSE 0]

\* Secp256k1Scalar.IsOverHalfOrder, Negate and MarshalBinary.
IsOverHalfOrder(s) == s > GroupOrder \div 2
Negate(s) == (GroupOrder - s) % GroupOrder
ScalarMarshalBinary(s) == Bytes32(s)

\* Secp256k1Point.MarshalBinary: 2 plus the parity of Y, then X.
PointMarshalBinary(p) == <<(p.Y % 2) + 2>> \o Bytes32(p.X)

\* SigEthereum, encoding S as it is.
SigEthereumAsIs(sig) ==
    [sig |-> sig, rs |-> PointMarshalBinary(sig.R) \o ScalarMarshalBinary(sig.S), err |-> Nil]

\* Signature.SigEthereum: the signature after the call (S is negated in
\* place, through the pointer the copied struct shares with the caller's),
\* the bytes and the error.
SigEthereum(sig) ==
    LET S == IF IsOverHalfOrder(sig.S) THEN Negate(sig.S) ELSE sig.S
        r == PointMarshalBinary(sig.R)
        s == ScalarMarshalBinary(S)
    IN  [sig |-> [sig EXCEPT !.S = S], rs |-> r \o s, err |-> Nil]

\* The driver holds a signature.
InitSignature ==
    /\ hs = <<>>
    /\ net = {}
    /\ faults = 0
    /\ last = Event("init", 0)
    /\ pc = [t \in Threads |-> Idle]
    /\ \E R \in CurvePoints, S \in Scalars :
          call = [fn |-> "Signature", sig |-> [R |-> R, S |-> S], calls |-> 0]

\* The driver calls SigEthereum on the signature it holds.
SigEthereumCall ==
    /\ call.fn \in {"Signature", "SigEthereum"} /\ call.calls < MaxSigCalls
    /\ LET ret == SigEthereum(call.sig)
       IN  call' = [fn |-> "SigEthereum", before |-> call.sig, sig |-> ret.sig,
                    ret |-> ret, calls |-> call.calls + 1]
    /\ UNCHANGED <<hs, net, faults, last, pc>>

NextSignature == SigEthereumCall

SpecSignature == InitSignature /\ [][NextSignature]_vars

---------------------------------------------------------------------------
(* The test of the dec proof: TestDec *)

\* sample.IntervalL draws from -2^L .. 2^L; L is scaled down to MaxL.
MaxL == 6
IntervalL == -(2^MaxL)..(2^MaxL)

\* var group curve.Curve: the zero value of the interface type.
TestGroup == NilObj

\* group.NewScalar().SetInt(y): a method call on a nil interface panics.
NewScalarSetInt(group, y) ==
    IF group = NilObj THEN [x |-> 0, panicked |-> TRUE]
    ELSE [x |-> y % GroupOrder, panicked |-> FALSE]

\* TestDec has declared group and sampled y.
InitDec ==
    /\ hs = <<>>
    /\ net = {}
    /\ faults = 0
    /\ last = Event("init", 0)
    /\ pc = [t \in Threads |-> Idle]
    /\ \E y \in IntervalL :
          call = [fn |-> "TestDec", group |-> TestGroup, y |-> y, x |-> 0,
                  at |-> "sampled", verified |-> FALSE]

\* x := group.NewScalar().SetInt(y).  The panic ends the test; the
\* statements after it (Enc, NewProof, Verify, Marshal) are never reached.
NewScalarCall ==
    /\ call.fn = "TestDec" /\ call.at = "sampled"
    /\ LET r == NewScalarSetInt(call.group, call.y)
       IN  call' = [call EXCEPT !.x = r.x,
                                !.at = IF r.panicked THEN "panicked" ELSE "scalar"]
    /\ UNCHANGED <<hs, net, faults, last, pc>>

NextDec == NewScalarCall

SpecDec == InitDec /\ [][NextDec]_vars

\* C30: the test gets past its first statements to a proof of the true
\* statement (C encrypts y, X = y mod q) that verifies, also after being
\* marshalled and unmarshalled twice: it never ends without that.
C30_DecProofVerifies ==
    (call.fn = "TestDec" /\ call.at # "sampled") =>
       (call.at # "panicked" /\ call.verified)


---------------------------------------------------------------------------
(* The round object of the current round *)

\* C31: whenever Accept or ProcessRound can be called on a handler, also
\* right after it was rebuilt by MultiHandlerFromJSON, CurrentRound and
\* Rounds[current round number] hold the same round state: what a message's
\* verify / store step wrote is what the Finalize of ProcessRound reads.
C31_CurrentRoundIsRoundsEntry ==
    \A p \in Handlers : ~hs[p].panicked => hs[p].cr = hs[p].rd


\* The step is a ProcessRound call on handler p that ran the round's
\* Finalize.
FinalizeStep(p) ==
    ProcessStep(p) /\ last'.op \in {"panic", "abort", "output", "next"}

\* C32: in a round that expects a broadcast and a P2P message, in whatever
\* order a sender's two messages were accepted, when ProcessRound runs
\* Finalize every P2P message that ReceivedAll counted has passed the
\* round's VerifyMessage and StoreMessage.
C32_CountedMessagesVerified ==
    [][\A p \in Handlers :
          (FinalizeStep(p) /\ expectsNormalMessage(hs[p].proto, hs[p].cur)) =>
             \A j \in OtherPartyIDs(p) :
                /\ hs[p].Messages[hs[p].cur][j] # NilObj
                /\ hs[p].cr.pm[hs[p].cur][j] = hs[p].Messages[hs[p].cur][j].Data]_vars


\* The error ProcessRound records when the Finalize of round r returned an
\* Abort round.
AbortErrs ==
    {"computed Delta is inconsistent with [delta]G", "failed to validate signature"}

\* Handler h holds the outcome of a terminal round: the result of an Output,
\* or the error of an Abort returned by Finalize.
TerminalProduced(h) ==
    h.ResultObj # NilObj \/ (h.Err # NilObj /\ h.Err.Err \in AbortErrs)

---------------------------------------------------------------------------
(* Keygen rounds 2 and 3: commitments, openings, RID and chain key *)

\* Length of a RID / chain key (params.SecBytes, scaled), its cells being
\* bits, and the bit length of a Paillier modulus (params.BitsPaillier,
\* scaled).
RIDLen == 2
BitsPaillier == 4

\* Absent values of the round's maps, by type: an absent byte string is the
\* empty (nil) slice, an absent number or pointer is 0 or NilObj.
NilBytes == <<>>
NilNat == 0

\* types.RID.Validate: the length is SecBytes.
RIDValidate(rid) == Len(rid) = RIDLen

\* types.EmptyRID and RID.XOR (cell by cell).
EmptyRID == [i \in 1..RIDLen |-> 0]

XOR(rid, otherRID) == [i \in 1..RIDLen |-> (rid[i] + otherRID[i]) % 2]

\* Bit length of n.
RECURSIVE BitLen(_)
BitLen(n) == IF n = 0 THEN 0 ELSE 1 + BitLen(n \div 2)

\* paillier.ValidateN: not nil, BitsPaillier bits, odd.
ValidateN(n) == n # NilNat /\ BitLen(n) = BitsPaillier /\ n % 2 = 1

RECURSIVE GCD(_, _)
GCD(a, b) == IF b = 0 THEN a ELSE GCD(b, a % b)

\* pedersen.ValidateParameters: none nil, s and t units modulo n.
ValidateParameters(n, s, t) ==
    /\ n # NilNat /\ s # NilNat /\ t # NilNat
    /\ s < n /\ t < n
    /\ GCD(s, n) = 1 /\ GCD(t, n) = 1

\* Exponent.Degree: the constant coefficient is not stored when IsConstant.
Degree(p) ==
    IF p.IsConstant THEN Len(p.Coefficients) ELSE Len(p.Coefficients) - 1

\* hash.Commitment / hash.Decommitment Validate: the digest or the nonce has
\* its full length. A digest is modelled by the tuple of what was hashed.
ShortBytes == <<"short">>

CommitmentValidate(c) == c # NilBytes /\ c # ShortBytes

\* HashForID(id).Commit: the digest of the data and the decommitment under
\* the hash state of the sender.
Commit(id, data, u) == <<"commitment", id, data, u>>

\* Hash.Decommit: both well-formed and the digest recomputed from the data
\* equals the commitment.
Decommit(id, c, u, data) ==
    CommitmentValidate(c) /\ CommitmentValidate(u) /\ c = Commit(id, data, u)

\* The data a Broadcast3 opens, in the order they are hashed.
Opened(body) ==
    <<body.RID, body.C, body.VSSPolynomial, body.SchnorrCommitments,
      body.ElGamalPublic, body.N, body.S, body.T>>

\* Kround2.StoreBroadcastMessage: keep the commitment V_j if it is a
\* well-formed Broadcast2.
Kround2StoreBroadcastMessage(r, from, body) ==
    IF body.type # "Broadcast2" THEN [r |-> r, err |-> "invalid content"]
    ELSE IF ~CommitmentValidate(body.Commitment)
    THEN [r |-> r, err |-> "invalid commitment"]
    ELSE [r |-> [r EXCEPT !.Commitments[from] = body.Commitment], err |-> Nil]

\* Kround3.StoreBroadcastMessage with the entries written before the
\* decommitment is compared with V_j.
Kround3StoreBeforeDecommit(r, from, body) ==
    IF body.type # "Broadcast3" THEN [r |-> r, err |-> "invalid content"]
    ELSE LET r1 == [r EXCEPT !.RIDs[from] = body.RID,
                             !.ChainKeys[from] = body.C,
                             !.Pedersen[from] = [N |-> body.N, S |-> body.S, T |-> body.T],
                             !.PaillierPublic[from] = body.N,
                             !.VSSPolynomials[from] = body.VSSPolynomial,
                             !.SchnorrCommitments[from] = body.SchnorrCommitments,
                             !.ElGamalPublic[from] = body.ElGamalPublic]
         IN  IF Decommit(from, r.Commitments[from], body.Decommitment, Opened(body))
             THEN [r |-> r1, err |-> Nil]
             ELSE [r |-> r1, err |-> "failed to decommit"]

\* Kround3.StoreBroadcastMessage: the checks in the order of the code, then
\* the seven entries of the sender.
Kround3StoreBroadcastMessage(r, from, body) ==
    IF body.type # "Broadcast3" THEN [r |-> r, err |-> "invalid content"]
    ELSE IF \/ body.N = NilNat \/ body.S = NilNat \/ body.T = NilNat
            \/ body.VSSPolynomial = NilObj \/ body.SchnorrCommitments = Nil
    THEN [r |-> r, err |-> "nil fields"]
    ELSE IF ~RIDValidate(body.RID) THEN [r |-> r, err |-> "rid"]
    ELSE IF ~RIDValidate(body.C) THEN [r |-> r, err |-> "chainkey"]
    ELSE IF ~CommitmentValidate(body.Decommitment)
    THEN [r |-> r, err |-> "invalid decommitment"]
    ELSE IF r.VSSSecretConstantIsZero # body.VSSPolynomial.IsConstant
    THEN [r |-> r, err |-> "vss polynomial has incorrect constant"]
    ELSE IF Degree(body.VSSPolynomial) # r.Threshold
    THEN [r |-> r, err |-> "vss polynomial has incorrect degree"]
    ELSE IF ~ValidateN(body.N) THEN [r |-> r, err |-> "paillier"]
    ELSE IF ~ValidateParameters(body.N, body.S, body.T)
    THEN [r |-> r, err |-> "pedersen"]
    ELSE IF ~Decommit(from, r.Commitments[from], body.Decommitment, Opened(body))
    THEN [r |-> r, err |-> "failed to decommit"]
    ELSE [r |-> [r EXCEPT !.RIDs[from] = body.RID,
                          !.ChainKeys[from] = body.C,
                          !.Pedersen[from] = [N |-> body.N, S |-> body.S, T |-> body.T],
                          !.PaillierPublic[from] = body.N,
                          !.VSSPolynomials[from] = body.VSSPolynomial,
                          !.SchnorrCommitments[from] = body.SchnorrCommitments,
                          !.ElGamalPublic[from] = body.ElGamalPublic],
          err |-> Nil]

\* The XOR of the entries of m for the parties of ids, in that order,
\* starting from acc.
RECURSIVE XORAll(_, _, _)
XORAll(acc, ids, m) ==
    IF ids = <<>> THEN acc ELSE XORAll(XOR(acc, m[Head(ids)]), Tail(ids), m)

\* Kround3.Finalize folding the values of the other parties only.
Kround3FinalizeOthersOnly(r) ==
    IF \/ \E j \in Parties : r.RIDs[j] = NilBytes
       \/ r.PreviousChainKey = NilBytes /\ \E j \in Parties : r.ChainKeys[j] = NilBytes
    THEN [kind |-> "panic", RID |-> NilBytes, ChainKey |-> NilBytes]
    ELSE [kind |-> "next",
          RID |-> XORAll(EmptyRID, SortedSeq(Parties \ {1}), r.RIDs),
          ChainKey |-> IF r.PreviousChainKey # NilBytes THEN r.PreviousChainKey
                       ELSE XORAll(EmptyRID, SortedSeq(Parties \ {1}), r.ChainKeys)]

\* Kround3.Finalize, the part that fixes the RID and the chain key of round
\* 4: the previous chain key if there is one, else the XOR of all c_j; the
\* XOR of all RID_j. RID.XOR indexes a missing entry and panics.
Kround3Finalize(r) ==
    IF \/ \E j \in Parties : r.RIDs[j] = NilBytes
       \/ r.PreviousChainKey = NilBytes /\ \E j \in Parties : r.ChainKeys[j] = NilBytes
    THEN [kind |-> "panic", RID |-> NilBytes, ChainKey |-> NilBytes]
    ELSE [kind |-> "next",
          RID |-> XORAll(EmptyRID, PartyIDs, r.RIDs),
          ChainKey |-> IF r.PreviousChainKey # NilBytes THEN r.PreviousChainKey
                       ELSE XORAll(EmptyRID, PartyIDs, r.ChainKeys)]

\* The party whose rounds are examined, and the threshold of the session.
KeygenSelf == 1
KeygenThreshold == 1

\* The first n + 1 coefficients of a polynomial in the exponent, without the
\* constant one if it is the identity.
Coefficients(n, isConstant) ==
    IF isConstant THEN [i \in 1..n |-> <<"F", i>>]
    ELSE [i \in 1..(n + 1) |-> <<"F", i - 1>>]

\* The opening party j broadcasts in round 2 of a keygen or of a refresh:
\* byte strings of full length, an odd modulus of BitsPaillier bits, two
\* units modulo it and a polynomial of the degree of the threshold.
Opening(j, refresh) ==
    [type |-> "Broadcast3",
     RID |-> [i \in 1..RIDLen |-> IF i = 1 THEN j % 2 ELSE 1],
     C |-> [i \in 1..RIDLen |-> IF i = 1 THEN 1 ELSE j % 2],
     VSSPolynomial |-> [IsConstant |-> refresh,
                        Coefficients |-> Coefficients(KeygenThreshold, refresh)],
     SchnorrCommitments |-> "A",
     ElGamalPublic |-> "Y",
     N |-> 2^(BitsPaillier - 1) + 1, S |-> 2, T |-> 4,
     Decommitment |-> <<"u">>]

\* Openings that pass every check on their own: the one above, one with
\* another RID and chain key, one with another modulus.
ValidOpenings(j, refresh) ==
    LET b == Opening(j, refresh) IN
    {b,
     [b EXCEPT !.RID = [i \in 1..RIDLen |-> IF i = 1 THEN 1 ELSE 0],
               !.C = [i \in 1..RIDLen |-> IF i = 1 THEN 0 ELSE 1]],
     [b EXCEPT !.N = 2^BitsPaillier - 1]}

\* The contents a peer may send as its round-3 broadcast: a valid opening,
\* or one with a single field changed.
Broadcast3Bodies(j, refresh) ==
    LET b == Opening(j, refresh)
        p == b.VSSPolynomial
    IN  ValidOpenings(j, refresh)
        \cup {[b EXCEPT !.type = "Other"]}
        \cup {[b EXCEPT !.RID = v] : v \in {NilBytes, Tail(b.RID)}}
        \cup {[b EXCEPT !.C = v] : v \in {NilBytes, Append(b.C, 1)}}
        \cup {[b EXCEPT !.VSSPolynomial = v] :
                 v \in {NilObj,
                        [IsConstant |-> ~refresh,
                         Coefficients |-> Coefficients(KeygenThreshold, ~refresh)],
                        [p EXCEPT !.Coefficients = Tail(p.Coefficients)],
                        [p EXCEPT !.Coefficients =
                                     Coefficients(KeygenThreshold + 1, refresh)]}}
        \cup {[b EXCEPT !.SchnorrCommitments = v] : v \in {Nil, "A2"}}
        \cup {[b EXCEPT !.ElGamalPublic = "Y2"]}
        \cup {[b EXCEPT !.N = v] : v \in {NilNat, 2^(BitsPaillier - 1) - 1, 2^(BitsPaillier - 1) + 4,
                                           2^BitsPaillier + 1}}
        \cup {[b EXCEPT !.S = v] : v \in {NilNat, 3, b.N + 2}}
        \cup {[b EXCEPT !.T = v] : v \in {NilNat, 6}}
        \cup {[b EXCEPT !.Decommitment = v] : v \in {NilBytes, ShortBytes, <<"u2">>}}

\* The contents a peer may send as its round-2 broadcast: the commitment to
\* one of its valid openings, a malformed commitment, or another content.
Broadcast2Bodies(j, refresh) ==
    {[type |-> "Broadcast2", Commitment |-> Commit(j, Opened(b), b.Decommitment)] :
        b \in ValidOpenings(j, refresh)}
    \cup {[type |-> "Broadcast2", Commitment |-> c] : c \in {NilBytes, ShortBytes}}
    \cup {[type |-> "Other", Commitment |-> NilBytes]}

\* The previous chain key of a refresh.
PreviousChainKeys == {[i \in 1..RIDLen |-> 1]}

\* The Kround2 that Kround1.Finalize returns: the maps hold the entries of
\* self only.
NewKround2(refresh, prev) ==
    LET b == Opening(KeygenSelf, refresh)
        own(v, none) == [j \in Parties |-> IF j = KeygenSelf THEN v ELSE none]
    IN  [Threshold |-> KeygenThreshold,
         VSSSecretConstantIsZero |-> refresh,
         PreviousChainKey |-> IF refresh THEN prev ELSE NilBytes,
         Commitments |-> own(Commit(KeygenSelf, Opened(b), b.Decommitment), NilBytes),
         RIDs |-> own(b.RID, NilBytes),
         ChainKeys |-> own(b.C, NilBytes),
         Pedersen |-> own([N |-> b.N, S |-> b.S, T |-> b.T], NilObj),
         PaillierPublic |-> own(b.N, NilNat),
         VSSPolynomials |-> own(b.VSSPolynomial, NilObj),
         SchnorrCommitments |-> [j \in Parties |-> Nil],
         ElGamalPublic |-> own(b.ElGamalPublic, Nil)]

NoBody == [type |-> "none"]
NoOut == [kind |-> "none", RID |-> NilBytes, ChainKey |-> NilBytes]

\* A keygen or a refresh after round 1.
InitOpening ==
    /\ hs = <<>> /\ net = {} /\ faults = 0
    /\ last = [op |-> "init", p |-> 0]
    /\ pc = <<>>
    /\ \E refresh \in BOOLEAN : \E prev \in PreviousChainKeys :
          call = [fn |-> "Kround1.Finalize", round |-> 2,
                  r |-> NewKround2(refresh, prev), before |-> NewKround2(refresh, prev),
                  from |-> 0, body |-> NoBody, err |-> Nil, out |-> NoOut]

\* The handler hands the round-2 broadcast of peer j to the round.
Store2Call ==
    /\ call.round = 2
    /\ \E j \in OtherPartyIDs(KeygenSelf) :
       \E body \in Broadcast2Bodies(j, call.r.VSSSecretConstantIsZero) :
          LET s == Kround2StoreBroadcastMessage(call.r, j, body) IN
          call' = [call EXCEPT !.fn = "Kround2.StoreBroadcastMessage",
                               !.before = call.r, !.r = s.r, !.from = j,
                               !.body = body, !.err = s.err]
    /\ UNCHANGED <<hs, net, faults, last, pc>>

\* Kround2.Finalize: round 3 works on the maps of round 2.
Finalize2Call ==
    /\ call.round = 2
    /\ call' = [call EXCEPT !.fn = "Kround2.Finalize", !.round = 3,
                            !.before = call.r, !.from = 0, !.body = NoBody,
                            !.err = Nil]
    /\ UNCHANGED <<hs, net, faults, last, pc>>

\* The handler hands the round-3 broadcast of peer j to the round.
Store3Call ==
    /\ call.round = 3
    /\ \E j \in OtherPartyIDs(KeygenSelf) :
       \E body \in Broadcast3Bodies(j, call.r.VSSSecretConstantIsZero) :
          LET s == Kround3StoreBroadcastMessage(call.r, j, body) IN
          call' = [call EXCEPT !.fn = "Kround3.StoreBroadcastMessage",
                               !.before = call.r, !.r = s.r, !.from = j,
                               !.body = body, !.err = s.err]
    /\ UNCHANGED <<hs, net, faults, last, pc>>

\* Kround3.Finalize.
Finalize3Call ==
    /\ call.round = 3
    /\ LET f == Kround3Finalize(call.r) IN
       call' = [call EXCEPT !.fn = "Kround3.Finalize",
                            !.round = IF f.kind = "next" THEN 4 ELSE 3,
                            !.before = call.r, !.from = 0, !.body = NoBody,
                            !.err = Nil, !.out = f]
    /\ UNCHANGED <<hs, net, faults, last, pc>>

NextOpening == Store2Call \/ Finalize2Call \/ Store3Call \/ Finalize3Call

SpecOpening == InitOpening /\ [][NextOpening]_vars

\* The maps of a keygen round that hold one entry for each party.
PartyMaps(r) ==
    <<r.Commitments, r.RIDs, r.ChainKeys, r.Pedersen, r.PaillierPublic,
      r.VSSPolynomials, r.SchnorrCommitments, r.ElGamalPublic>>

\* Every check the opening body of sender from has to pass in round r.
OpeningChecks(r, from, body) ==
    /\ body.type = "Broadcast3"
    /\ body.N # NilNat /\ body.S # NilNat /\ body.T # NilNat
    /\ body.VSSPolynomial # NilObj /\ body.SchnorrCommitments # Nil
    /\ Len(body.RID) = RIDLen /\ Len(body.C) = RIDLen
    /\ body.Decommitment \notin {NilBytes, ShortBytes}
    /\ body.VSSPolynomial.IsConstant = r.VSSSecretConstantIsZero
    /\ Degree(body.VSSPolynomial) = r.Threshold
    /\ BitLen(body.N) = BitsPaillier /\ body.N % 2 = 1
    /\ body.S \in 1..(body.N - 1) /\ body.T \in 1..(body.N - 1)
    /\ GCD(body.S, body.N) = 1 /\ GCD(body.T, body.N) = 1
    /\ r.Commitments[from] = Commit(from, Opened(body), body.Decommitment)

\* C34: Kround3.StoreBroadcastMessage records the opening of a sender (RID,
\* chain key, Pedersen N, s, t, Paillier key, VSS polynomial, Schnorr
\* commitment, ElGamal key) if and only if the content passes every check,
\* the last being that it opens the commitment stored in round 2; it then
\* returns nil and changes the sender's entries only. Otherwise it returns
\* an error and all maps of the round are as before.
C34_OpeningRecordedOnlyIfChecked ==
    call.fn = "Kround3.StoreBroadcastMessage" =>
       LET j == call.from
           b == call.body
           r0 == call.before
           r1 == call.r
       IN  /\ (call.err = Nil) <=> OpeningChecks(r0, j, b)
           /\ call.err # Nil => r1 = r0
           /\ call.err = Nil =>
                /\ r1.RIDs[j] = b.RID /\ r1.ChainKeys[j] = b.C
                /\ r1.Pedersen[j] = [N |-> b.N, S |-> b.S, T |-> b.T]
                /\ r1.PaillierPublic[j] = b.N
                /\ r1.VSSPolynomials[j] = b.VSSPolynomial
                /\ r1.SchnorrCommitments[j] = b.SchnorrCommitments
                /\ r1.ElGamalPublic[j] = b.ElGamalPublic
                /\ r1.Commitments = r0.Commitments
                /\ \A i \in 1..Len(PartyMaps(r1)) : \A k \in Parties \ {j} :
                      PartyMaps(r1)[i][k] = PartyMaps(r0)[i][k]

\* An opening was recorded, and one was refused at the decommitment.
C34_Witness ==
    /\ call.fn = "Kround3.StoreBroadcastMessage"
    /\ call.err = "failed to decommit"
    /\ \E j \in OtherPartyIDs(KeygenSelf) \ {call.from} :
          call.r.SchnorrCommitments[j] # Nil


\* The orders in which the parties can be listed.
PartyOrders ==
    {ids \in [1..Cardinality(Parties) -> Parties] :
        \A a, b \in 1..Cardinality(Parties) : a # b => ids[a] # ids[b]}

\* The number of parties of S whose entry of m has cell i set.
RECURSIVE CountSet(_, _, _)
CountSet(S, m, i) ==
    IF S = {} THEN 0
    ELSE LET j == CHOOSE x \in S : TRUE IN m[j][i] + CountSet(S \ {j}, m, i)

---------------------------------------------------------------------------
(* Sign round 4: the delta shares *)

\* The entry of a party whose share is not stored: no scalar and no point.
NoShare == GroupOrder

\* The shares a peer may send in its round-4 broadcast: delta_j, and
\* Delta_j as the multiple of the base point it is.
DeltaShareValues == {0, 1, 3}
BigDeltaShareValues == {0, 1, 3, 5}

\* Sround4.StoreBroadcastMessage: refuse a zero delta_j or an identity
\* Delta_j, else store both.
Sround4StoreBroadcastMessage(r, from, body) ==
    IF body.type # "Broadcast4" THEN [r |-> r, err |-> "invalid content"]
    ELSE IF body.DeltaShare = 0 \/ body.BigDeltaShare = 0
    THEN [r |-> r, err |-> "nil fields"]
    ELSE [r |-> [r EXCEPT !.BigDeltaShares[from] = body.BigDeltaShare,
                          !.DeltaShares[from] = body.DeltaShare],
          err |-> Nil]

\* The loop of Sround4.Finalize over PartyIDs: delta and Delta.
RECURSIVE SumDelta(_, _, _)
SumDelta(acc, ids, m) ==
    IF ids = <<>> THEN acc
    ELSE SumDelta(ScalarAdd(acc, m[Head(ids)]), Tail(ids), m)

RECURSIVE SumBigDelta(_, _, _)
SumBigDelta(acc, ids, m) ==
    IF ids = <<>> THEN acc
    ELSE SumBigDelta(PointAdd(acc, m[Head(ids)]), Tail(ids), m)

\* Sround4.Finalize without the comparison of [delta]G with Delta.
Sround4FinalizeUnchecked(r, out) ==
    IF \E j \in Parties : r.DeltaShares[j] = NoShare \/ r.BigDeltaShares[j] = NoShare
    THEN [kind |-> "panic", out |-> <<>>, number |-> 4, r |-> r]
    ELSE LET Delta == SumDelta(0, PartyIDs, r.DeltaShares)
             BigDelta == SumBigDelta(0, PartyIDs, r.BigDeltaShares)
             deltaInv == IF Delta = 0 THEN 0 ELSE ScalarInvert(Delta)
             BigR == Act(deltaInv, r.Gamma)
             SigmaShare == <<"sigma", BigR, r.ChiShare, r.KShare>>
         IN  [kind |-> "next",
              out |-> BroadcastMessage(out, r.self,
                         [type |-> "Broadcast5", SigmaShare |-> SigmaShare]),
              number |-> 5,
              r |-> [r EXCEPT !.SigmaShares[r.self] = SigmaShare,
                              !.Delta = Delta, !.BigDelta = BigDelta,
                              !.BigR = BigR]]

\* Sround4.Finalize: delta and Delta are the sums over all parties; if
\* [delta]G is not Delta the Abort round is returned with no messages, else
\* sigma_i is broadcast and round 5 returned. Adding a missing share
\* dereferences nil.
Sround4Finalize(r, out) ==
    IF \E j \in Parties : r.DeltaShares[j] = NoShare \/ r.BigDeltaShares[j] = NoShare
    THEN [kind |-> "panic", out |-> <<>>, number |-> 4, r |-> r]
    ELSE LET Delta == SumDelta(0, PartyIDs, r.DeltaShares)
             BigDelta == SumBigDelta(0, PartyIDs, r.BigDeltaShares)
             deltaInv == IF Delta = 0 THEN 0 ELSE ScalarInvert(Delta)
             BigR == Act(deltaInv, r.Gamma)
             SigmaShare == <<"sigma", BigR, r.ChiShare, r.KShare>>
         IN  IF ActOnBase(Delta) # BigDelta
             THEN [kind |-> "abort", out |-> <<>>, number |-> 0, r |-> r]
             ELSE [kind |-> "next",
                   out |-> BroadcastMessage(out, r.self,
                              [type |-> "Broadcast5", SigmaShare |-> SigmaShare]),
                   number |-> 5,
                   r |-> [r EXCEPT !.SigmaShares[r.self] = SigmaShare,
                                   !.Delta = Delta, !.BigDelta = BigDelta,
                                   !.BigR = BigR]]

\* The Sround4 that round 3 returns to party self: its own delta_i and
\* Delta_i are in the maps.
NewSround4(self, delta, bigDelta, gamma) ==
    [self |-> self,
     DeltaShares |-> [j \in Parties |-> IF j = self THEN delta ELSE NoShare],
     BigDeltaShares |-> [j \in Parties |-> IF j = self THEN bigDelta ELSE NoShare],
     Gamma |-> gamma, KShare |-> "k", ChiShare |-> "chi",
     SigmaShares |-> [j \in Parties |-> NilBytes],
     Delta |-> NoShare, BigDelta |-> NoShare, BigR |-> NoShare]

InitDelta ==
    /\ hs = <<>> /\ net = {} /\ faults = 0
    /\ last = [op |-> "init", p |-> 0]
    /\ pc = <<>>
    /\ \E self \in Parties : \E d \in DeltaShareValues \ {0} :
       \E D \in BigDeltaShareValues \ {0} : \E g \in {1, 2} :
          call = [fn |-> "Sround3.Finalize", r |-> NewSround4(self, d, D, g),
                  before |-> NewSround4(self, d, D, g), from |-> 0,
                  err |-> Nil, kind |-> "none", out |-> <<>>, number |-> 4]

\* The handler hands the round-4 broadcast of peer j to the round.
StoreBroadcast4Call ==
    /\ call.number = 4
    /\ \E j \in OtherPartyIDs(call.r.self) :
       \E d \in DeltaShareValues : \E D \in BigDeltaShareValues :
       \E type \in {"Broadcast4", "Other"} :
          LET s == Sround4StoreBroadcastMessage(call.r, j,
                      [type |-> type, DeltaShare |-> d, BigDeltaShare |-> D])
          IN  call' = [call EXCEPT !.fn = "Sround4.StoreBroadcastMessage",
                                   !.before = call.r, !.r = s.r, !.from = j,
                                   !.err = s.err, !.kind = "none", !.out = <<>>]
    /\ UNCHANGED <<hs, net, faults, last, pc>>

\* ProcessRound calls Finalize with an empty list.
Finalize4Call ==
    /\ call.number = 4
    /\ LET f == Sround4Finalize(call.r, <<>>) IN
       call' = [call EXCEPT !.fn = "Sround4.Finalize", !.before = call.r,
                            !.r = f.r, !.from = 0, !.err = Nil,
                            !.kind = f.kind, !.out = f.out, !.number = f.number]
    /\ UNCHANGED <<hs, net, faults, last, pc>>

NextDelta == StoreBroadcast4Call \/ Finalize4Call

SpecDelta == InitDelta /\ [][NextDelta]_vars

\* The sum modulo the group order of the entries of m for the parties of S.
RECURSIVE SumOver(_, _)
SumOver(S, m) ==
    IF S = {} THEN 0
    ELSE LET j == CHOOSE x \in S : TRUE IN (m[j] + SumOver(S \ {j}, m)) % GroupOrder

\* C35: Finalize of sign round 4, with the shares of all parties stored,
\* returns the Abort round and no message at all when (sum of delta_j)*G is
\* not the sum of Delta_j; when they are equal it returns round 5 and exactly
\* one message, the broadcast of sigma_i, which is also its own entry of
\* SigmaShares.
C35_DeltaCheckedBeforeSigma ==
    (call.fn = "Sround4.Finalize" /\ call.kind # "panic") =>
       LET r == call.before
           equal == ActOnBase(SumOver(Parties, r.DeltaShares)) =
                       SumOver(Parties, r.BigDeltaShares)
       IN  /\ ~equal => call.kind = "abort" /\ call.out = <<>> /\ call.r = r
           /\ equal =>
                /\ call.kind = "next" /\ call.number = 5
                /\ Len(call.out) = 1
                /\ call.out[1].Broadcast /\ call.out[1].From = r.self
                /\ call.out[1].Content.type = "Broadcast5"
                /\ call.r.SigmaShares[r.self] = call.out[1].Content.SigmaShare

\* Finalize aborted on shares that are each non-zero, with the sums unequal.
C35_Witness ==
    /\ call.fn = "Sround4.Finalize" /\ call.kind = "abort"
    /\ \A j \in Parties : call.before.DeltaShares[j] # NoShare


\* C37: the list returned by the Finalize of a sign round that does its
\* per-peer work on the pool holds exactly one broadcast and exactly one P2P
\* message for each other party and nothing else, as the single-threaded
\* loop would leave it, whatever the interleaving of the pool's goroutines.
C37_PoolKeepsAllMessages ==
    (call.fn = "Finalize" /\ call.round.parallel /\ call.returned) =>
       LET out == call.out
           idx == 1..Len(out)
       IN  /\ Cardinality({i \in idx : out[i].Broadcast}) = 1
           /\ \A j \in OtherPartyIDs(call.self) :
                 Cardinality({i \in idx : ~out[i].Broadcast /\ out[i].To = j}) = 1
           /\ Len(out) = 1 + Cardinality(OtherPartyIDs(call.self))


---------------------------------------------------------------------------
(* Verifying a signature after SigEthereum *)

\* The field of the curve y^2 = x^3 + 7 and the inverse in it.
FieldPrime == 13
FieldInvert(a) == CHOOSE b \in 1..(FieldPrime - 1) : (a * b) % FieldPrime = 1

\* Secp256k1Point.Add on affine coordinates.
CurveAdd(P, Q) ==
    IF P = Identity THEN Q
    ELSE IF Q = Identity THEN P
    ELSE IF P.X = Q.X /\ (P.Y + Q.Y) % FieldPrime = 0 THEN Identity
    ELSE LET l == IF P = Q
                  THEN (3 * P.X * P.X * FieldInvert((2 * P.Y) % FieldPrime)) % FieldPrime
                  ELSE ((Q.Y - P.Y + FieldPrime) *
                           FieldInvert((Q.X - P.X + FieldPrime) % FieldPrime)) % FieldPrime
             x == (l * l + 2 * FieldPrime - P.X - Q.X) % FieldPrime
             y == (l * (P.X - x + FieldPrime) + FieldPrime - P.Y) % FieldPrime
         IN  [X |-> x, Y |-> y]

\* Secp256k1Scalar.Act and ActOnBase; the base point is (7, 5).
RECURSIVE CurveAct(_, _)
CurveAct(s, P) == IF s = 0 THEN Identity ELSE CurveAdd(P, CurveAct(s - 1, P))

BasePoint == [X |-> 7, Y |-> 5]

\* Secp256k1Point.XScalar: the affine X reduced to a scalar.
XScalar(P) == P.X % GroupOrder

\* Signature.Verify(X, hash), m being the scalar of the hash.
SignatureVerify(sig, X, m) ==
    LET r == XScalar(sig.R) IN
    IF r = 0 \/ sig.S = 0 THEN FALSE
    ELSE LET sInv == ScalarInvert(sig.S)
             R2 == CurveAct(sInv, CurveAdd(CurveAct(m, BasePoint), CurveAct(r, X)))
         IN  R2 = sig.R

\* C38: SigEthereum leaves R and S of the signature it is called on as they
\* were, so that the signature the driver returns next to the encoding still
\* verifies under every public key and hash it verified under before.
C38_SigEthereumLeavesSignature ==
    call.fn = "SigEthereum" =>
       /\ call.sig = call.before
       /\ \A X \in CurvePoints \ {Identity} : \A m \in Scalars :
             SignatureVerify(call.before, X, m) => SignatureVerify(call.sig, X, m)


---------------------------------------------------------------------------
(* Rebuilding the rounds from JSON *)

\* A JSON object is the list of its members, each a key and a value; the
\* value of a map member is null, empty or filled.
MemberValues == {"null", "empty", "filled"}

\* Helper.MarshalJSON: the members of a round's Helper.
HelperJSON(proto) ==
    <<<<"Info", proto>>, <<"Pool", "filled">>, <<"PartyIDsSlice", "filled">>,
      <<"OtherPartyIDsSlice", "filled">>, <<"Ssid", "filled">>, <<"HashData", "filled">>>>

\* The members the MarshalJSON of round n of a protocol writes itself, the
\* first being a map of the round with value v.
OwnMembers(proto, n, v) ==
    LET rest(keys) == [i \in 1..Len(keys) |-> <<keys[i], "filled">>] IN
    IF proto = "keygen"
    THEN CASE n = 1 -> <<<<"VSSSecret", v>>>>
           [] n = 2 -> <<<<"VSSPolynomials", v>>>> \o
                       rest(<<"Commitments", "RIDs", "ChainKeys", "ShareReceived",
                              "ElGamalPublic", "PaillierPublic", "NModulus", "S", "T",
                              "ElGamalSecret", "PaillierSecret", "PedersenSecret",
                              "SchnorrRand", "Decommitment">>)
           [] n = 3 -> <<<<"SchnorrCommitments", v>>>>
           [] n = 4 -> <<<<"ChainKey", v>>>> \o rest(<<"RID">>)
           [] OTHER -> <<<<"UpdatedConfig", v>>>>
    ELSE CASE n = 1 -> <<<<"ECDSA", v>>>> \o
                       rest(<<"PublicKey", "SecretECDSA", "SecretPaillier", "Paillier",
                              "Pedersen", "Message">>)
           [] n = 2 -> <<<<"GammaShare", v>>>> \o
                       rest(<<"K", "G", "BigGammaShare", "KShare", "KNonce", "GNonce">>)
           [] n = 3 -> <<<<"DeltaShareAlpha", v>>>> \o
                       rest(<<"DeltaShareBeta", "ChiShareAlpha", "ChiShareBeta">>)
           [] n = 4 -> <<<<"DeltaShares", v>>>> \o
                       rest(<<"BigDeltaShares", "Gamma", "ChiShare">>)
           [] OTHER -> <<<<"SigmaShares", v>>>> \o
                       rest(<<"Delta", "BigDelta", "BigR", "R">>)

\* jsontools.JoinJSON: the closing brace of j1 becomes a comma and j2
\* follows without its opening brace; with an empty object on either side
\* the result is not JSON.
InvalidJSON == <<<<"invalid", "invalid">>>>

JoinJSON(j1, j2) ==
    IF j1 = <<>> \/ j2 = <<>> \/ j1 = InvalidJSON \/ j2 = InvalidJSON THEN InvalidJSON
    ELSE j1 \o j2

\* MarshalJSON of round n: its own members joined with the JSON of the
\* round it embeds, down to the Helper of round 1.  vals[k] is the value of
\* the first member of round k.
RECURSIVE RoundMarshalJSON(_, _, _)
RoundMarshalJSON(proto, n, vals) ==
    JoinJSON(OwnMembers(proto, n, vals[n]),
             IF n = 1 THEN HelperJSON(proto) ELSE RoundMarshalJSON(proto, n - 1, vals))

\* json.Unmarshal into a map[string]json.RawMessage: the value of key, nil
\* if there is no such member (a JSON null is kept as the bytes "null").
RawMember(j, key) ==
    IF \E i \in 1..Len(j) : j[i][1] = key
    THEN j[CHOOSE i \in 1..Len(j) : j[i][1] = key /\ \A k \in (i + 1)..Len(j) : j[k][1] # key][2]
    ELSE Nil

\* The round a rebuilt Helper belongs to: Info.ProtocolID.
ProtocolOf(j) == RawMember(j, "Info")

\* The round types of the two protocols.
RoundType(proto, n) == [proto |-> proto, Number |-> n]
NoRound == [proto |-> Nil, Number |-> 0]

\* MultiHandlerFromJSON, the choice of the current round's type, with the
\* tests in the order from round 1 up.
CurrentRoundLowestFirst(cr) ==
    IF RawMember(cr, "ECDSA") # Nil THEN RoundType("sign", 1)
    ELSE IF RawMember(cr, "VSSSecret") # Nil THEN RoundType("keygen", 1)
    ELSE IF RawMember(cr, "GammaShare") # Nil THEN RoundType("sign", 2)
    ELSE IF RawMember(cr, "VSSPolynomials") # Nil THEN RoundType("keygen", 2)
    ELSE IF RawMember(cr, "DeltaShareAlpha") # Nil THEN RoundType("sign", 3)
    ELSE IF RawMember(cr, "SchnorrCommitments") # Nil THEN RoundType("keygen", 3)
    ELSE IF RawMember(cr, "DeltaShares") # Nil THEN RoundType("sign", 4)
    ELSE IF RawMember(cr, "ChainKey") # Nil THEN RoundType("keygen", 4)
    ELSE IF RawMember(cr, "SigmaShares") # Nil THEN RoundType("sign", 5)
    ELSE IF RawMember(cr, "UpdatedConfig") # Nil THEN RoundType("keygen", 5)
    ELSE NoRound

\* MultiHandlerFromJSON, the choice of the current round's type by the
\* members of its JSON, from round 5 down.
CurrentRoundFromJSON(cr) ==
    IF RawMember(cr, "UpdatedConfig") # Nil THEN RoundType("keygen", 5)
    ELSE IF RawMember(cr, "SigmaShares") # Nil THEN RoundType("sign", 5)
    ELSE IF RawMember(cr, "ChainKey") # Nil THEN RoundType("keygen", 4)
    ELSE IF RawMember(cr, "DeltaShares") # Nil THEN RoundType("sign", 4)
    ELSE IF RawMember(cr, "SchnorrCommitments") # Nil THEN RoundType("keygen", 3)
    ELSE IF RawMember(cr, "DeltaShareAlpha") # Nil THEN RoundType("sign", 3)
    ELSE IF RawMember(cr, "VSSPolynomials") # Nil THEN RoundType("keygen", 2)
    ELSE IF RawMember(cr, "GammaShare") # Nil THEN RoundType("sign", 2)
    ELSE IF RawMember(cr, "VSSSecret") # Nil THEN RoundType("keygen", 1)
    ELSE IF RawMember(cr, "ECDSA") # Nil THEN RoundType("sign", 1)
    ELSE NoRound

\* MultiHandlerFromJSON, the entry of Rounds rebuilt from the i-th raw
\* round (i = number - 1): the keygen round of that number if its marking
\* member is there, else the sign round if its member is there, else the
\* error "Could not unmarshal rounds[n]".
RoundsEntryFromJSON(n, rd) ==
    LET keygenKey == <<"VSSSecret", "VSSPolynomials", "SchnorrCommitments",
                       "ChainKey", "UpdatedConfig">>[n]
        signKey == <<"ECDSA", "GammaShare", "DeltaShareAlpha", "DeltaShares",
                     "SigmaShares">>[n]
    IN  IF RawMember(rd, keygenKey) # Nil THEN RoundType("keygen", n)
        ELSE IF RawMember(rd, signKey) # Nil THEN RoundType("sign", n)
        ELSE NoRound

\* MultiHandlerFromJSON, rounds part: the current round and the Rounds map,
\* or an error.
RoundsFromJSON(doc) ==
    LET cr == CurrentRoundFromJSON(doc.CurrentRound)
        rounds == [n \in DOMAIN doc.Rounds |-> RoundsEntryFromJSON(n, doc.Rounds[n])]
    IN  IF \E n \in DOMAIN rounds : rounds[n] = NoRound
        THEN [err |-> "Could not unmarshal rounds", CurrentRound |-> NoRound,
              Rounds |-> <<>>]
        ELSE [err |-> Nil, CurrentRound |-> cr, Rounds |-> rounds]

\* MultiHandler.MarshalJSON, rounds part, of a handler whose current round
\* is round r of proto: CurrentRound and Rounds[1..r].
HandlerRoundsJSON(proto, r, vals) ==
    [CurrentRound |-> RoundMarshalJSON(proto, r, vals),
     Rounds |-> [n \in 1..r |-> RoundMarshalJSON(proto, n, vals)]]

\* A handler in round r of a protocol has been serialized.
InitRestore ==
    /\ hs = <<>> /\ net = {} /\ faults = 0
    /\ last = [op |-> "init", p |-> 0]
    /\ pc = <<>>
    /\ \E proto \in Protocols : \E r \in RoundNumbers :
       \E vals \in [1..r -> MemberValues] :
          call = [fn |-> "MarshalJSON", proto |-> proto, r |-> r,
                  doc |-> HandlerRoundsJSON(proto, r, vals),
                  h |-> [err |-> Nil, CurrentRound |-> NoRound, Rounds |-> <<>>]]

\* The driver rebuilds the handler from the document.
FromJSONCall ==
    /\ call.fn = "MarshalJSON"
    /\ call' = [call EXCEPT !.fn = "MultiHandlerFromJSON", !.h = RoundsFromJSON(call.doc)]
    /\ UNCHANGED <<hs, net, faults, last, pc>>

NextRestore == FromJSONCall

SpecRestore == InitRestore /\ [][NextRestore]_vars

\* C39: for a handler serialized in round r of keygen or sign,
\* MultiHandlerFromJSON returns no error, a current round of that protocol
\* and number r, and a Rounds map with exactly the keys 1..r, each holding
\* the round of that protocol and that number.
C39_RoundsRebuilt ==
    call.fn = "MultiHandlerFromJSON" =>
       /\ call.h.err = Nil
       /\ call.h.CurrentRound = [proto |-> call.proto, Number |-> call.r]
       /\ DOMAIN call.h.Rounds = 1..call.r
       /\ \A n \in 1..call.r :
             call.h.Rounds[n] = [proto |-> call.proto, Number |-> n]

\* A handler in keygen round 3 whose SchnorrCommitments map was still empty
\* when serialized has been rebuilt with its three rounds.
C39_Witness ==
    /\ call.fn = "MultiHandlerFromJSON"
    /\ call.proto = "keygen" /\ call.r = 3
    /\ RawMember(call.doc.CurrentRound, "SchnorrCommitments") = "empty"
    /\ call.h.CurrentRound.Number = 3 /\ DOMAIN call.h.Rounds = 1..3


---------------------------------------------------------------------------
(* The echo round: broadcast.Round2.VerifyMessage *)

\* Echo hashes: nil or empty (equal for bytes.Equal) and two digests.
EchoHashes == {NilBytes, <<"h1">>, <<"h2">>}

\* The inner rounds: one whose VerifyMessage accepts everything (keygen
\* rounds 2 and 3), one that verifies a proof made by the sender for the
\* recipient (sign round 4).
InnerRounds == {"Kround3", "Sround4"}

\* VerifyMessage of the wrapped round.
InnerVerifyMessage(inner, msg) ==
    IF inner = "Kround3" THEN Nil
    ELSE IF msg.Content.type # "Message4" THEN "invalid content"
    ELSE IF msg.Content.proof # <<msg.From, msg.To>> THEN "failed to validate log proof"
    ELSE Nil

\* The contents of the inner round: a proof made by party a for party b, or
\* a content of another round.
InnerContents ==
    {[type |-> "Message4", proof |-> <<a, b>>] : a \in {1, 2}, b \in {1, 3}}
    \cup {[type |-> "Other", proof |-> <<0, 0>>]}

\* What a peer may send: a Message2 around an inner content, a nil
\* *Message2, or the bare inner content.
EchoContents ==
    {[type |-> "Message2", Content |-> c, EchoHash |-> e] :
        c \in InnerContents, e \in EchoHashes}
    \cup {[type |-> "nil", Content |-> c, EchoHash |-> NilBytes] :
            c \in {[type |-> "Other", proof |-> <<0, 0>>]}}
    \cup {[type |-> c.type, Content |-> c, EchoHash |-> NilBytes] : c \in InnerContents}

\* Round2.VerifyMessage without the comparison of the echo hashes.
Round2VerifyMessageUncompared(b, msg) ==
    IF msg.Content.type # "Message2" THEN [err |-> "invalid content", calls |-> <<>>]
    ELSE LET inner == [From |-> msg.From, To |-> msg.To, Content |-> msg.Content.Content]
         IN  [err |-> InnerVerifyMessage(b.Round, inner), calls |-> <<inner>>]

\* Round2.VerifyMessage: the error and the messages handed to the inner
\* round's VerifyMessage.
Round2VerifyMessage(b, msg) ==
    IF msg.Content.type # "Message2" THEN [err |-> "invalid content", calls |-> <<>>]
    ELSE IF msg.Content.EchoHash # b.EchoHash
    THEN [err |-> "echo broadcast failed", calls |-> <<>>]
    ELSE LET inner == [From |-> msg.From, To |-> msg.To, Content |-> msg.Content.Content]
         IN  [err |-> InnerVerifyMessage(b.Round, inner), calls |-> <<inner>>]

\* An echo round around an inner round, holding its echo hash.
InitEcho ==
    /\ hs = <<>> /\ net = {} /\ faults = 0
    /\ last = [op |-> "init", p |-> 0]
    /\ pc = <<>>
    /\ \E inner \in InnerRounds : \E e \in EchoHashes :
          call = [fn |-> "broadcast.New", b |-> [Round |-> inner, EchoHash |-> e],
                  msg |-> NilObj, err |-> Nil, calls |-> <<>>]

\* The handler asks the echo round to verify a message.
Round2VerifyCall ==
    /\ \E from \in {1, 2} : \E to \in {0, 1, 3} : \E c \in EchoContents :
          LET msg == [From |-> from, To |-> to, Content |-> c]
              v == Round2VerifyMessage(call.b, msg)
          IN  call' = [call EXCEPT !.fn = "Round2.VerifyMessage", !.msg = msg,
                                   !.err = v.err, !.calls = v.calls]
    /\ UNCHANGED <<hs, net, faults, last, pc>>

NextEcho == Round2VerifyCall

SpecEcho == InitEcho /\ [][NextEcho]_vars

\* C40: Round2.VerifyMessage returns an error and does not call the inner
\* round when the content is not a Message2 or its EchoHash is not the one
\* the round holds; otherwise it calls the inner VerifyMessage once, with
\* the same From and To and the unwrapped content, and returns its verdict.
C40_EchoCheckedBeforeInner ==
    call.fn = "Round2.VerifyMessage" =>
       LET msg == call.msg
           body == msg.Content
       IN  IF body.type # "Message2" \/ body.EchoHash # call.b.EchoHash
           THEN call.err # Nil /\ call.calls = <<>>
           ELSE /\ Len(call.calls) = 1
                /\ call.calls[1].From = msg.From /\ call.calls[1].To = msg.To
                /\ call.calls[1].Content = body.Content
                /\ call.err = InnerVerifyMessage(call.b.Round, call.calls[1])

\* With equal hashes the verdict of the inner round was returned: a proof
\* made for another recipient was refused by it.
C40_Witness ==
    /\ call.fn = "Round2.VerifyMessage"
    /\ call.msg.Content.type = "Message2"
    /\ call.msg.Content.EchoHash = call.b.EchoHash /\ call.b.EchoHash # NilBytes
    /\ Len(call.calls) = 1
    /\ call.err = "failed to validate log proof"
====
